---- MODULE Spec2Model ----
(***************************************************************************)
(* Model of the dice physics engine of olivier-w/inconnu:                  *)
(*   js/physics/physics-engine.js (PhysicsEngine), js/physics/rigid-body.js*)
(*   (RigidBody), js/physics/integrator.js, js/physics/collision.js,       *)
(*   js/physics/constants.js, js/d6-dice.js and the DiceApp that drives it.*)
(*                                                                         *)
(* The JavaScript numbers are IEEE doubles.  The model computes the same   *)
(* formulas in fixed point, rounding every product and quotient to the     *)
(* nearest unit:                                                           *)
(*   length            1 unit = 10 micrometres      (1 m     = 100000)     *)
(*   linear velocity   1 unit = 1 mm/s              (1 m/s   = 1000)       *)
(*   angular velocity  1 unit = 1 mrad/s            (1 rad/s = 1000)       *)
(*   quaternion        1 unit = 1e-4                (1.0     = 10000)      *)
(*   force, impulse    mass is 1 kg, so 1 unit = 1 mN, 1 mN s              *)
(*   time              1 tick = 1/480 s             (1/240 s = 2 ticks)    *)
(*   coefficients      1 unit = 1/1000              (0.35    = 350)        *)
(***************************************************************************)
EXTENDS Integers, Sequences, FiniteSets, TLC

(***************************************************************************)
(* js/physics/constants.js                                                 *)
(***************************************************************************)
GRAVITY == 9810
FIXED_TIMESTEP_240 == 2
FIXED_TIMESTEP_120 == 4
MAX_ACCUMULATOR == 48
RESTITUTION == 350
KINETIC_FRICTION == 300
LINEAR_DRAG == 10
ANGULAR_DRAG == 20
CONTACT_DAMPING == 850
SETTLING_TIME == 144
VELOCITY_THRESHOLD == 50
ANGULAR_THRESHOLD == 100
POSITION_CORRECTION == 200
PENETRATION_SLOP == 100
MIN_X == 0 - 400000
MAX_X == 400000
MIN_Z == 0 - 400000
MAX_Z == 400000
GROUND_Y == 0
WALL_RESTITUTION == 500
DICE_RESTITUTION == 300
DICE_VELOCITY_THRESHOLD == 50
D6_SIZE == 100000
D6_MASS == 1
D6_HALF_SIZE == D6_SIZE \div 2
\* INERTIA = (1/6) * MASS * SIZE * SIZE kg m^2, so INVERSE_INERTIA = 6 / (MASS * SIZE^2)
D6_INVERSE_INERTIA == 6 \div D6_MASS
D6_REST_HEIGHT == D6_HALF_SIZE

\* D6_VERTICES: the 8 corners of the cube, centred at the origin
D6_VERTICES ==
    LET h == D6_HALF_SIZE
    IN  << [x |-> 0 - h, y |-> 0 - h, z |-> 0 - h],
           [x |-> h,     y |-> 0 - h, z |-> 0 - h],
           [x |-> 0 - h, y |-> h,     z |-> 0 - h],
           [x |-> h,     y |-> h,     z |-> 0 - h],
           [x |-> 0 - h, y |-> 0 - h, z |-> h],
           [x |-> h,     y |-> 0 - h, z |-> h],
           [x |-> 0 - h, y |-> h,     z |-> h],
           [x |-> h,     y |-> h,     z |-> h] >>

(***************************************************************************)
(* Number helpers: the double operations the code uses, in fixed point.    *)
(***************************************************************************)
\* a / b rounded to the nearest unit (b > 0): the model of a double division
Div(a, b) == IF a >= 0 THEN (a + (b \div 2)) \div b ELSE 0 - (((0 - a) + (b \div 2)) \div b)

\* Math.min, Math.max, Math.abs
Min(a, b) == IF a < b THEN a ELSE b
Max(a, b) == IF a > b THEN a ELSE b
Abs(a) == IF a < 0 THEN 0 - a ELSE a

\* Math.sqrt on a sum of squares: the largest r with r * r <= n
RECURSIVE SqrtIter(_, _)
SqrtIter(n, x) ==
    LET y == (x + (n \div x)) \div 2
    IN  IF y >= x THEN x ELSE SqrtIter(n, y)

Sqrt(n) == IF n < 2 THEN n ELSE SqrtIter(n, Min(n, 46340))

Vec(x, y, z) == [x |-> x, y |-> y, z |-> z]

ZeroVec == Vec(0, 0, 0)

(***************************************************************************)
(* js/physics/rigid-body.js: RigidBody                                     *)
(***************************************************************************)
\* new RigidBody({x, y, z, mass: D6.MASS, inertia: D6.INERTIA}) as createD6Body builds it
RigidBody(x, y, z) ==
    [ position        |-> Vec(x, y, z),
      quaternion      |-> [w |-> 10000, x |-> 0, y |-> 0, z |-> 0],
      velocity        |-> ZeroVec,
      angularVelocity |-> ZeroVec,
      force           |-> ZeroVec,
      torque          |-> ZeroVec,
      settleTimer     |-> 0,
      isSettled       |-> FALSE ]

inverseMass == 1 \div D6_MASS

inverseInertia == D6_INVERSE_INERTIA

applyForce(body, fx, fy, fz) ==
    [body EXCEPT !.force = Vec(@.x + fx, @.y + fy, @.z + fz)]

applyTorque(body, tx, ty, tz) ==
    [body EXCEPT !.torque = Vec(@.x + tx, @.y + ty, @.z + tz)]

clearForces(body) ==
    [body EXCEPT !.force = ZeroVec, !.torque = ZeroVec]

\* sqrt(vx^2 + vy^2 + vz^2), mm/s
getSpeed(body) ==
    LET v == body.velocity
    IN  Sqrt(v.x * v.x + v.y * v.y + v.z * v.z)

\* sqrt(wx^2 + wy^2 + wz^2), mrad/s
getAngularSpeed(body) ==
    LET w == body.angularVelocity
    IN  Sqrt(w.x * w.x + w.y * w.y + w.z * w.z)

\* q * v * conjugate(q) for a quaternion q (1e-4 units) and a vector v
rotateByQuaternion(v, q) ==
    LET qvw == Div(0 - (q.x * v.x + q.y * v.y + q.z * v.z), 10000)
        qvx == Div(q.w * v.x + q.y * v.z - q.z * v.y, 10000)
        qvy == Div(q.w * v.y + q.z * v.x - q.x * v.z, 10000)
        qvz == Div(q.w * v.z + q.x * v.y - q.y * v.x, 10000)
    IN  Vec(Div(qvw * (0 - q.x) + qvx * q.w + qvy * (0 - q.z) - qvz * (0 - q.y), 10000),
            Div(qvw * (0 - q.y) + qvy * q.w + qvz * (0 - q.x) - qvx * (0 - q.z), 10000),
            Div(qvw * (0 - q.z) + qvz * q.w + qvx * (0 - q.y) - qvy * (0 - q.x), 10000))

\* a + b, component by component
AddVec(a, b) == Vec(a.x + b.x, a.y + b.y, a.z + b.z)

localToWorld(body, localPoint) ==
    AddVec(rotateByQuaternion(localPoint, body.quaternion), body.position)

\* worldToLocal(worldPoint): the point is translated, multiplied by the conjugate
\* qConj and the product is multiplied by (w, -x, -y, -z) once more, as the
\* return statement has it
worldToLocal(body, worldPoint) ==
    LET q  == body.quaternion
        v  == Vec(worldPoint.x - body.position.x, worldPoint.y - body.position.y,
                  worldPoint.z - body.position.z)
        qConj == [w |-> q.w, x |-> 0 - q.x, y |-> 0 - q.y, z |-> 0 - q.z]
        qvw == Div(0 - (qConj.x * v.x + qConj.y * v.y + qConj.z * v.z), 10000)
        qvx == Div(qConj.w * v.x + qConj.y * v.z - qConj.z * v.y, 10000)
        qvy == Div(qConj.w * v.y + qConj.z * v.x - qConj.x * v.z, 10000)
        qvz == Div(qConj.w * v.z + qConj.x * v.y - qConj.y * v.x, 10000)
    IN  Vec(Div(qvw * (0 - q.x) + qvx * q.w + qvy * (0 - q.z) - qvz * (0 - q.y), 10000),
            Div(qvw * (0 - q.y) + qvy * q.w + qvz * (0 - q.x) - qvx * (0 - q.z), 10000),
            Div(qvw * (0 - q.z) + qvz * q.w + qvx * (0 - q.y) - qvy * (0 - q.x), 10000))

getWorldVertices(body) ==
    [i \in 1..Len(D6_VERTICES) |-> localToWorld(body, D6_VERTICES[i])]

\* v_point = v_cm + omega x r; r is taken in mm so that omega x r is in mm/s
getVelocityAtPoint(body, point) ==
    LET rx == Div(point.x - body.position.x, 100)
        ry == Div(point.y - body.position.y, 100)
        rz == Div(point.z - body.position.z, 100)
        w  == body.angularVelocity
    IN  Vec(body.velocity.x + Div(w.y * rz - w.z * ry, 1000),
            body.velocity.y + Div(w.z * rx - w.x * rz, 1000),
            body.velocity.z + Div(w.x * ry - w.y * rx, 1000))

\* dv = J / m; dw = I^-1 (r x J); r is taken in mm
applyImpulseAtPoint(body, impulse, point) ==
    LET rx == Div(point.x - body.position.x, 100)
        ry == Div(point.y - body.position.y, 100)
        rz == Div(point.z - body.position.z, 100)
        rCrossJx == ry * impulse.z - rz * impulse.y
        rCrossJy == rz * impulse.x - rx * impulse.z
        rCrossJz == rx * impulse.y - ry * impulse.x
    IN  [body EXCEPT
           !.velocity = Vec(@.x + impulse.x * inverseMass,
                            @.y + impulse.y * inverseMass,
                            @.z + impulse.z * inverseMass),
           !.angularVelocity = Vec(@.x + Div(rCrossJx * inverseInertia, 1000),
                                   @.y + Div(rCrossJy * inverseInertia, 1000),
                                   @.z + Div(rCrossJz * inverseInertia, 1000))]

\* normalizeQuaternion() that leaves every quaternion as it is
normalizeQuaternion_skip(body) == body

normalizeQuaternion(body) ==
    LET q   == body.quaternion
        len == Sqrt(q.w * q.w + q.x * q.x + q.y * q.y + q.z * q.z)
    IN  IF len > 1
        THEN [body EXCEPT !.quaternion =
                 [w |-> Div(q.w * 10000, len), x |-> Div(q.x * 10000, len),
                  y |-> Div(q.y * 10000, len), z |-> Div(q.z * 10000, len)]]
        ELSE body

\* setFromAxisAngle(axis, angle): cosHalf and sinHalf are Math.cos(angle / 2)
\* and Math.sin(angle / 2) in 1e-4 units, the axis is in 1e-4 units too
setFromAxisAngle(body, axis, cosHalf, sinHalf) ==
    [body EXCEPT !.quaternion =
        [w |-> cosHalf, x |-> Div(axis.x * sinHalf, 10000),
         y |-> Div(axis.y * sinHalf, 10000), z |-> Div(axis.z * sinHalf, 10000)]]

\* sqrt(w^2 + x^2 + y^2 + z^2) of a quaternion, 1e-4 units
QuaternionNorm(q) == Sqrt(q.w * q.w + q.x * q.x + q.y * q.y + q.z * q.z)

(***************************************************************************)
(* js/physics/integrator.js                                                *)
(***************************************************************************)
\* the linear drag of applyDrag: F = -c |v| v, speed being body.getSpeed()
applyLinearDrag(body, speed) ==
    IF speed > 1
    THEN applyForce(body,
           0 - Div(Div(body.velocity.x * speed, 1000) * LINEAR_DRAG, 1000),
           0 - Div(Div(body.velocity.y * speed, 1000) * LINEAR_DRAG, 1000),
           0 - Div(Div(body.velocity.z * speed, 1000) * LINEAR_DRAG, 1000))
    ELSE body

\* the angular drag of applyDrag, angSpeed being body.getAngularSpeed()
applyAngularDrag(body, angSpeed) ==
    IF angSpeed > 1
    THEN applyTorque(body,
           0 - Div(Div(body.angularVelocity.x * angSpeed, 1000) * ANGULAR_DRAG, 1000),
           0 - Div(Div(body.angularVelocity.y * angSpeed, 1000) * ANGULAR_DRAG, 1000),
           0 - Div(Div(body.angularVelocity.z * angSpeed, 1000) * ANGULAR_DRAG, 1000))
    ELSE body

applyDrag(body) ==
    applyAngularDrag(applyLinearDrag(body, getSpeed(body)), getAngularSpeed(body))

\* q' = q + 0.5 * (0, w) * q * dt
integrateQuaternion(body, dt) ==
    LET q == body.quaternion
        w == body.angularVelocity
        dqw == 0 - Div(w.x * q.x + w.y * q.y + w.z * q.z, 1000)
        dqx == Div(w.x * q.w + w.y * q.z - w.z * q.y, 1000)
        dqy == Div(w.y * q.w + w.z * q.x - w.x * q.z, 1000)
        dqz == Div(w.z * q.w + w.x * q.y - w.y * q.x, 1000)
    IN  [body EXCEPT !.quaternion =
            [w |-> q.w + Div(dqw * dt, 960), x |-> q.x + Div(dqx * dt, 960),
             y |-> q.y + Div(dqy * dt, 960), z |-> q.z + Div(dqz * dt, 960)]]

\* v' = v + (F/m) dt and w' = w + (torque/I) dt
integrateVelocity(body, dt) ==
    [body EXCEPT
       !.velocity = Vec(@.x + Div(body.force.x * inverseMass * dt, 480),
                        @.y + Div(body.force.y * inverseMass * dt, 480),
                        @.z + Div(body.force.z * inverseMass * dt, 480)),
       !.angularVelocity = Vec(@.x + Div(body.torque.x * inverseInertia * dt, 480),
                               @.y + Div(body.torque.y * inverseInertia * dt, 480),
                               @.z + Div(body.torque.z * inverseInertia * dt, 480))]

\* x' = x + v' dt
integratePosition(body, dt) ==
    [body EXCEPT
       !.position = Vec(@.x + Div(body.velocity.x * 100 * dt, 480),
                        @.y + Div(body.velocity.y * 100 * dt, 480),
                        @.z + Div(body.velocity.z * 100 * dt, 480))]

\* explicit Euler: the position moves with the velocity the body had
integrate_explicit(body, dt) ==
    clearForces(normalizeQuaternion(integrateQuaternion(
        integrateVelocity(
            integratePosition(applyDrag(applyForce(body, 0, 0 - GRAVITY * D6_MASS, 0)), dt),
            dt),
        dt)))

\* integrate that leaves the accumulated force and torque in place
integrate_keepForces(body, dt) ==
    normalizeQuaternion(integrateQuaternion(
        integratePosition(
            integrateVelocity(applyDrag(applyForce(body, 0, 0 - GRAVITY * D6_MASS, 0)), dt),
            dt),
        dt))

\* Semi-implicit Euler: velocity first, then position with the new velocity
integrate(body, dt) ==
    clearForces(normalizeQuaternion(integrateQuaternion(
        integratePosition(
            integrateVelocity(applyDrag(applyForce(body, 0, 0 - GRAVITY * D6_MASS, 0)), dt),
            dt),
        dt)))

(***************************************************************************)
(* js/physics/collision.js                                                 *)
(***************************************************************************)
\* Coulomb friction at a ground contact: opposes the tangential contact velocity
calculateFrictionImpulse(body, contactPoint, pointVelocity, normalImpulseMag) ==
    LET vtx   == pointVelocity.x
        vtz   == pointVelocity.z
        vtMag == Sqrt(vtx * vtx + vtz * vtz)
        maxFriction == Div(Abs(normalImpulseMag) * KINETIC_FRICTION, 1000)
        frictionMag == Min(maxFriction, Div(vtMag * D6_MASS, 2))
    IN  IF vtMag < 1
        THEN ZeroVec
        ELSE Vec(Div((0 - vtx) * frictionMag, vtMag), 0, Div((0 - vtz) * frictionMag, vtMag))

\* j = -(1 + e) * vn / (1/m + ((I^-1 (r x n)) x r) . n), n = (0, 1, 0); r in mm
calculateCollisionImpulse(body, contactPoint, pointVelocity) ==
    LET rx == Div(contactPoint.x - body.position.x, 100)
        rz == Div(contactPoint.z - body.position.z, 100)
        vn == pointVelocity.y
        rCrossNx == 0 - rz
        rCrossNz == rx
        iInvRCrossNx == rCrossNx * inverseInertia
        iInvRCrossNz == rCrossNz * inverseInertia
        angularTerm  == Div(iInvRCrossNz * rx - iInvRCrossNx * rz, 1000)
        denominator  == 1000 * inverseMass + angularTerm
        j == Div((0 - (1000 + RESTITUTION)) * vn, denominator)
    IN  AddVec(Vec(0, j, 0), calculateFrictionImpulse(body, contactPoint, pointVelocity, j))

\* what the RigidBody constructor derives from its options: inverseMass is
\* 1 / mass and inverseInertia is 1 / inertia, the defaults being those of the d6
D6Options == [inverseMass |-> inverseMass, inverseInertia |-> inverseInertia]

\* new RigidBody({mass: Infinity, inertia: Infinity}): 1 / Infinity is 0
ImmovableOptions == [inverseMass |-> 0, inverseInertia |-> 0]

\* the denominator of calculateCollisionImpulse, 1/m + ((I^-1 (r x n)) x r) . n,
\* per mille, which for n = (0, 1, 0) is 1/m + I^-1 (rx^2 + rz^2)
ImpulseDenominator(options, body, contactPoint) ==
    1000 * options.inverseMass
      + Div(options.inverseInertia
              * (Div(contactPoint.x - body.position.x, 100)
                   * Div(contactPoint.x - body.position.x, 100)
                 + Div(contactPoint.z - body.position.z, 100)
                     * Div(contactPoint.z - body.position.z, 100)),
            1000)

\* calculateCollisionImpulse and applyImpulseAtPoint for a vertex that is below
\* the ground and moves into it. The division by the denominator has no guard:
\* for a denominator of 0 and vn < 0, j = -(1 + e) * vn / 0 is Infinity in
\* IEEE 754 arithmetic, and velocity.y += j * inverseMass adds Infinity * 0,
\* which is NaN, as is what is added to the angular velocity; finite tells
\* whether the velocities of the body are numbers. A denominator that is not 0
\* is that of the d6 options.
ContactImpulse(options, body, vertex) ==
    IF ImpulseDenominator(options, body, vertex) = 0
    THEN [body |-> body, finite |-> FALSE]
    ELSE [body |-> applyImpulseAtPoint(body,
                       calculateCollisionImpulse(body, vertex,
                                                 getVelocityAtPoint(body, vertex)),
                       vertex),
          finite |-> TRUE]

applyContactDamping(body) ==
    [body EXCEPT
       !.velocity = Vec(Div(@.x * CONTACT_DAMPING, 1000), @.y, Div(@.z * CONTACT_DAMPING, 1000)),
       !.angularVelocity = Vec(Div(@.x * CONTACT_DAMPING, 1000),
                               Div(@.y * CONTACT_DAMPING, 1000),
                               Div(@.z * CONTACT_DAMPING, 1000))]

\* the vertical velocity of a contact point before and after its impulse
NoBounce == [before |-> 0, after |-> 0]

\* by how much the vertical speed after the impulse is above RESTITUTION times
\* the one before, in 1e-3 mm/s
Excess(bounce) == Abs(bounce.after) * 1000 - RESTITUTION * Abs(bounce.before)

Worse(a, b) == IF Excess(b) > Excess(a) THEN b ELSE a

\* the horizontal velocity of a contact point before and after the friction
\* impulse is applied at it, with the magnitudes of that impulse and of the
\* normal one
NoSlip == [before |-> ZeroVec, after |-> ZeroVec, friction |-> 0, normal |-> 0]

\* the horizontal part of a vector
Tangential(v) == Vec(v.x, 0, v.z)

\* what the friction part of impulse does at vertex to a body whose contact
\* point moves at pointVelocity
SlipOf(body, vertex, pointVelocity, impulse) ==
    [before   |-> Tangential(pointVelocity),
     after    |-> Tangential(getVelocityAtPoint(
                      applyImpulseAtPoint(body, Tangential(impulse), vertex), vertex)),
     friction |-> Sqrt(impulse.x * impulse.x + impulse.z * impulse.z),
     normal   |-> impulse.y]

\* how far the slip after the impulse points along the slip before it: their
\* dot product, in (8 mm/s)^2
Along(slip) ==
    Div(slip.before.x, 8) * Div(slip.after.x, 8) + Div(slip.before.z, 8) * Div(slip.after.z, 8)

\* by how much the friction impulse is above KINETIC_FRICTION times the normal one
Grip(slip) == slip.friction * 1000 - Abs(slip.normal) * KINETIC_FRICTION

\* the slip that is reversed most, and at equal reversal the one that grips most
Slipperier(a, b) ==
    IF Along(b) < Along(a) \/ (Along(b) = Along(a) /\ Grip(b) > Grip(a)) THEN b ELSE a

\* the record after the impulse left the body as hit
GroundImpulse(st, vertex, penetration, pointVelocity, hit) ==
    [body               |-> hit,
     collisionOccurred  |-> TRUE,
     deepestPenetration |-> Max(st.deepestPenetration, penetration),
     impulses           |-> st.impulses + 1,
     bounce             |-> Worse(st.bounce,
                                  [before |-> pointVelocity.y,
                                   after  |-> getVelocityAtPoint(hit, vertex).y]),
     slip               |-> Slipperier(st.slip,
                                SlipOf(st.body, vertex, pointVelocity,
                                       calculateCollisionImpulse(st.body, vertex,
                                                                 pointVelocity)))]

\* a vertex below the ground whose velocity is pointVelocity
GroundPenetration(st, vertex, penetration, pointVelocity) ==
    IF pointVelocity.y < 0
    THEN GroundImpulse(st, vertex, penetration, pointVelocity,
                       applyImpulseAtPoint(st.body,
                           calculateCollisionImpulse(st.body, vertex, pointVelocity),
                           vertex))
    ELSE [st EXCEPT !.collisionOccurred  = TRUE,
                    !.deepestPenetration = Max(@, penetration)]

\* The body of the vertex loop of resolveGroundCollision for one vertex.
\* st = [body, collisionOccurred, deepestPenetration, impulses, bounce]: bounce
\* is the worst impulse so far for the observer
GroundVertex(st, vertex) ==
    IF GROUND_Y - vertex.y > 0
    THEN GroundPenetration(st, vertex, GROUND_Y - vertex.y,
                           getVelocityAtPoint(st.body, vertex))
    ELSE st

\* the vertex loop, from vertex i on
RECURSIVE GroundVertexLoop(_, _, _)
GroundVertexLoop(st, worldVertices, i) ==
    IF i > Len(worldVertices)
    THEN st
    ELSE GroundVertexLoop(GroundVertex(st, worldVertices[i]), worldVertices, i + 1)

\* the Baumgarte position correction
GroundCorrection(st) ==
    IF st.deepestPenetration > PENETRATION_SLOP
    THEN [st EXCEPT !.body.position.y =
            @ + Div((st.deepestPenetration - PENETRATION_SLOP) * POSITION_CORRECTION, 1000)]
    ELSE st

\* the contact damping when on the ground
GroundDamping(st) ==
    IF st.collisionOccurred
    THEN [st EXCEPT !.body = applyContactDamping(@)]
    ELSE st

\* resolveGroundCollision(body): the record after the vertex loop, the position
\* correction and the contact damping
GroundContact(body) ==
    GroundDamping(GroundCorrection(
        GroundVertexLoop([body |-> body, collisionOccurred |-> FALSE,
                          deepestPenetration |-> 0, impulses |-> 0, bounce |-> NoBounce,
                          slip |-> NoSlip],
                         getWorldVertices(body), 1)))

resolveGroundCollision(body) == GroundContact(body).body

LeftWall(body) ==
    IF body.position.x - D6_HALF_SIZE < MIN_X
    THEN IF body.velocity.x < 0
         THEN [body EXCEPT !.position.x = MIN_X + D6_HALF_SIZE,
                           !.velocity.x = Div((0 - @) * WALL_RESTITUTION, 1000),
                           !.angularVelocity.z = @ + Div(body.velocity.y, 2)]
         ELSE [body EXCEPT !.position.x = MIN_X + D6_HALF_SIZE]
    ELSE body

RightWall(body) ==
    IF body.position.x + D6_HALF_SIZE > MAX_X
    THEN IF body.velocity.x > 0
         THEN [body EXCEPT !.position.x = MAX_X - D6_HALF_SIZE,
                           !.velocity.x = Div((0 - @) * WALL_RESTITUTION, 1000),
                           !.angularVelocity.z = @ - Div(body.velocity.y, 2)]
         ELSE [body EXCEPT !.position.x = MAX_X - D6_HALF_SIZE]
    ELSE body

BackWall(body) ==
    IF body.position.z - D6_HALF_SIZE < MIN_Z
    THEN IF body.velocity.z < 0
         THEN [body EXCEPT !.position.z = MIN_Z + D6_HALF_SIZE,
                           !.velocity.z = Div((0 - @) * WALL_RESTITUTION, 1000),
                           !.angularVelocity.x = @ - Div(body.velocity.y, 2)]
         ELSE [body EXCEPT !.position.z = MIN_Z + D6_HALF_SIZE]
    ELSE body

FrontWall(body) ==
    IF body.position.z + D6_HALF_SIZE > MAX_Z
    THEN IF body.velocity.z > 0
         THEN [body EXCEPT !.position.z = MAX_Z - D6_HALF_SIZE,
                           !.velocity.z = Div((0 - @) * WALL_RESTITUTION, 1000),
                           !.angularVelocity.x = @ + Div(body.velocity.y, 2)]
         ELSE [body EXCEPT !.position.z = MAX_Z - D6_HALF_SIZE]
    ELSE body

\* the walls that turn the velocity back and leave the body where it is
resolveWallCollisions_noClamp(body) ==
    [FrontWall(BackWall(RightWall(LeftWall(body)))) EXCEPT !.position = body.position]

\* The four walls, in the code's order: left, right, back, front
resolveWallCollisions(body) == FrontWall(BackWall(RightWall(LeftWall(body))))

(***************************************************************************)
(* js/physics/physics-engine.js: PhysicsEngine                             *)
(***************************************************************************)
\* The lowest world-space vertex of the body
\* (the loop "if (v.y < minY) minY = v.y" of snapToGround)
MinOf(ys) == CHOOSE m \in ys : \A y \in ys : m <= y

MinVertexY(body) ==
    MinOf({localToWorld(body, D6_VERTICES[i]).y : i \in 1..Len(D6_VERTICES)})

\* snapToGround without its adjustment
snapToGround_skip(body) == body

\* the adjustment of snapToGround, minY being the lowest vertex: only when it is
\* within 0.01 m of the ground
SnapFrom(body, minY) ==
    IF minY < GROUND_Y + 1000
    THEN [body EXCEPT !.position.y = @ + (GROUND_Y - minY)]
    ELSE body

\* Snap body to rest on ground
snapToGround(body) == SnapFrom(body, MinVertexY(body))

\* Below both thresholds: the branch that lets settleTimer count
BelowThresholds(body) ==
    getSpeed(body) < VELOCITY_THRESHOLD /\ getAngularSpeed(body) < ANGULAR_THRESHOLD

\* the check that never declares a body settled
checkSettling_never(body, dt) == [body EXCEPT !.settleTimer = 0]

\* checkSettling that settles the body at its first check below the thresholds
checkSettling_eager(body, dt) ==
    IF BelowThresholds(body)
    THEN [snapToGround([body EXCEPT !.settleTimer = @ + dt,
                                    !.velocity = ZeroVec,
                                    !.angularVelocity = ZeroVec])
            EXCEPT !.isSettled = TRUE]
    ELSE [body EXCEPT !.settleTimer = 0]

\* checkSettling without its else branch
checkSettling_noReset(body, dt) ==
    IF BelowThresholds(body)
    THEN IF body.settleTimer + dt >= SETTLING_TIME
         THEN [snapToGround([body EXCEPT !.settleTimer = @ + dt,
                                         !.velocity = ZeroVec,
                                         !.angularVelocity = ZeroVec])
                 EXCEPT !.isSettled = TRUE]
         ELSE [body EXCEPT !.settleTimer = @ + dt]
    ELSE body

checkSettling(body, dt) ==
    IF BelowThresholds(body)
    THEN IF body.settleTimer + dt >= SETTLING_TIME
         THEN [snapToGround([body EXCEPT !.settleTimer = @ + dt,
                                         !.velocity = ZeroVec,
                                         !.angularVelocity = ZeroVec])
                 EXCEPT !.isSettled = TRUE]
         ELSE [body EXCEPT !.settleTimer = @ + dt]
    ELSE [body EXCEPT !.settleTimer = 0]

allSettled(bs) == \A i \in 1..Len(bs) : bs[i].isSettled

\* resetBody that keeps the spin and the settling state of the body
resetBody_keepSpin(body, x, y, z) ==
    clearForces([body EXCEPT !.position = Vec(x, y, z),
                             !.velocity = ZeroVec,
                             !.quaternion = [w |-> 10000, x |-> 0, y |-> 0, z |-> 0]])

resetBody(body, x, y, z) ==
    clearForces([body EXCEPT !.position = Vec(x, y, z),
                             !.velocity = ZeroVec,
                             !.angularVelocity = ZeroVec,
                             !.quaternion = [w |-> 10000, x |-> 0, y |-> 0, z |-> 0],
                             !.settleTimer = 0,
                             !.isSettled = FALSE])

(***************************************************************************)
(* js/d6-dice.js                                                           *)
(***************************************************************************)
createD6Body(x, y, z) == RigidBody(x, y, z)

\* applyRollImpulse(body): draw holds what the Math.random() calls produced:
\* the horizontal velocity, the spin and the orientation of setFromAxisAngle
applyRollImpulse(body, draw) ==
    [body EXCEPT !.velocity = Vec(draw.vx, 0 - 2000, draw.vz),
                 !.angularVelocity = Vec(draw.wx, draw.wy, draw.wz),
                 !.quaternion = draw.q]

D6_FACE_NORMALS ==
    << Vec(0, 0, 10000), Vec(0, 10000, 0), Vec(10000, 0, 0),
       Vec(0 - 10000, 0, 0), Vec(0, 0 - 10000, 0), Vec(0, 0, 0 - 10000) >>

\* the loop of getD6Value: the first face whose rotated normal has the largest y
RECURSIVE TopFaceLoop(_, _, _, _)
TopFaceLoop(q, i, maxDot, topFaceIndex) ==
    IF i > Len(D6_FACE_NORMALS)
    THEN topFaceIndex
    ELSE LET dot == rotateByQuaternion(D6_FACE_NORMALS[i], q).y
         IN  IF topFaceIndex = 0 \/ dot > maxDot
             THEN TopFaceLoop(q, i + 1, dot, i)
             ELSE TopFaceLoop(q, i + 1, maxDot, topFaceIndex)

getD6Value(body) == TopFaceLoop(body.quaternion, 1, 0, 0)

(***************************************************************************)
(* js/dice-types and js/physics.js: the dice of the older engine.  A face  *)
(* normal is in 1e-4 units, as a quaternion is.  A face value is kept as   *)
(* its text, so that 3, 'Heads' and undefined are values of one kind.       *)
(***************************************************************************)
D6_CONFIG ==
    [type |-> "d6",
     vertices |-> << Vec(0 - 50000, 0 - 50000, 0 - 50000), Vec(0 - 50000, 0 - 50000, 50000),
                     Vec(0 - 50000, 50000, 0 - 50000), Vec(0 - 50000, 50000, 50000),
                     Vec(50000, 0 - 50000, 0 - 50000), Vec(50000, 0 - 50000, 50000),
                     Vec(50000, 50000, 0 - 50000), Vec(50000, 50000, 50000) >>,
     faceNormals |-> << Vec(10000, 0, 0), Vec(0 - 10000, 0, 0), Vec(0, 10000, 0),
                        Vec(0, 0 - 10000, 0), Vec(0, 0, 10000), Vec(0, 0, 0 - 10000) >>,
     faceValues |-> << "3", "4", "1", "6", "2", "5" >>,
     readBottom |-> FALSE]

\* the 16 vertices are on two circles of radius 0.6, 0.1 apart
COIN_CONFIG ==
    [type |-> "coin",
     vertices |-> <<
                     Vec(60000, 5000, 0), Vec(60000, 0 - 5000, 0),
                     Vec(42426, 5000, 42426), Vec(42426, 0 - 5000, 42426),
                     Vec(0, 5000, 60000), Vec(0, 0 - 5000, 60000),
                     Vec(0 - 42426, 5000, 42426), Vec(0 - 42426, 0 - 5000, 42426),
                     Vec(0 - 60000, 5000, 0), Vec(0 - 60000, 0 - 5000, 0),
                     Vec(0 - 42426, 5000, 0 - 42426), Vec(0 - 42426, 0 - 5000, 0 - 42426),
                     Vec(0, 5000, 0 - 60000), Vec(0, 0 - 5000, 0 - 60000),
                     Vec(42426, 5000, 0 - 42426), Vec(42426, 0 - 5000, 0 - 42426) >>,
     faceNormals |-> << Vec(0, 10000, 0), Vec(0, 0 - 10000, 0) >>,
     faceValues |-> << "Heads", "Tails" >>,
     readBottom |-> FALSE]

\* the corners of THREE.TetrahedronGeometry(0.9) and its faces: (-1, 1, 1),
\* (1, 1, -1), (1, -1, 1) and (-1, -1, -1), each over sqrt(3)
D4_CONFIG ==
    [type |-> "d4",
     vertices |-> << Vec(0 - 51962, 51962, 0 - 51962), Vec(0 - 51962, 0 - 51962, 51962),
                     Vec(51962, 51962, 51962), Vec(51962, 0 - 51962, 0 - 51962) >>,
     faceNormals |-> << Vec(0 - 5774, 5774, 5774), Vec(5774, 5774, 0 - 5774),
                        Vec(5774, 0 - 5774, 5774), Vec(0 - 5774, 0 - 5774, 0 - 5774) >>,
     faceValues |-> << "1", "2", "3", "4" >>,
     readBottom |-> TRUE]

DICE_REGISTRY == {D4_CONFIG, D6_CONFIG, COIN_CONFIG}

DICE_TYPES == {entry.type : entry \in DICE_REGISTRY}

\* getDiceConfig(type) where the registry has an entry; it throws where it has none
getDiceConfig(type) == CHOOSE entry \in DICE_REGISTRY : entry.type = type

\* new PhysicsDie(position, config): the fields of the configuration are copied
\* as they are
PhysicsDie(config) ==
    [position        |-> ZeroVec,
     velocity        |-> ZeroVec,
     angularVelocity |-> ZeroVec,
     settleCounter   |-> 0,
     quaternion  |-> [w |-> 10000, x |-> 0, y |-> 0, z |-> 0],
     settled     |-> FALSE,
     vertices    |-> config.vertices,
     faceNormals |-> config.faceNormals,
     faceValues  |-> config.faceValues,
     readBottom  |-> config.readBottom]

\* array[i] of JavaScript for the 1-based i: undefined past the end
At(array, i) == IF i \in 1..Len(array) THEN array[i] ELSE "undefined"

\* normal.clone().applyQuaternion(quaternion).y * direction
FaceDot(die, i) ==
    rotateByQuaternion(die.faceNormals[i], die.quaternion).y
        * (IF die.readBottom THEN 0 - 1 ELSE 1)

\* the loop of getValue from face i on; best is the face of bestDot, 0 while
\* bestDot is -Infinity
RECURSIVE BestFaceLoop(_, _, _)
BestFaceLoop(die, i, best) ==
    IF i > Len(die.faceNormals)
    THEN best
    ELSE IF best = 0 \/ FaceDot(die, i) > FaceDot(die, best)
         THEN BestFaceLoop(die, i + 1, i)
         ELSE BestFaceLoop(die, i + 1, best)

getValue_topOnly(die) == At(die.faceValues, BestFaceLoop([die EXCEPT !.readBottom = FALSE], 1, 0))

getValue_nextFace(die) == At(die.faceValues, BestFaceLoop(die, 1, 0) + 1)

\* PhysicsDie.getValue(): result starts as faceValues[0]
getValue(die) ==
    IF BestFaceLoop(die, 1, 0) = 0
    THEN At(die.faceValues, 1)
    ELSE At(die.faceValues, BestFaceLoop(die, 1, 0))

(***************************************************************************)
(* js/physics.js: PhysicsDie.update(dt) for a die in flight that does not  *)
(* spin: its angular velocity is zero, so the orientation stays, and after *)
(* the move its vertices are above the ground, so there is no ground       *)
(* contact.  dt is in ticks.                                               *)
(***************************************************************************)
\* PHYSICS of js/physics.js: gravity in mm/s^2, the others per mille
gravity == 28000
restitution == 300
linearDamping == 995
angularDamping == 960
\* const bounds = 4
bounds == 400000

\* this.velocity.y -= PHYSICS.gravity * dt; this.applyDamping()
Damped(die, dt) ==
    [die EXCEPT
       !.velocity = Vec(Div(@.x * linearDamping, 1000),
                        Div((@.y - Div(gravity * dt, 480)) * linearDamping, 1000),
                        Div(@.z * linearDamping, 1000)),
       !.angularVelocity = Vec(Div(@.x * angularDamping, 1000),
                               Div(@.y * angularDamping, 1000),
                               Div(@.z * angularDamping, 1000))]

\* this.position.add(this.velocity.clone().multiplyScalar(dt))
Flown(die, dt) ==
    [die EXCEPT !.position = Vec(@.x + Div(die.velocity.x * 100 * dt, 480),
                                 @.y + Div(die.velocity.y * 100 * dt, 480),
                                 @.z + Div(die.velocity.z * 100 * dt, 480))]

Sign(a) == IF a > 0 THEN 1 ELSE IF a < 0 THEN 0 - 1 ELSE 0

\* "Wall collisions" of update
WallX(die) ==
    IF Abs(die.position.x) > bounds
    THEN [die EXCEPT !.position.x = Sign(@) * bounds,
                     !.velocity.x = Div((0 - @) * restitution, 1000),
                     !.settleCounter = 0]
    ELSE die

WallZ(die) ==
    IF Abs(die.position.z) > bounds
    THEN [die EXCEPT !.position.z = Sign(@) * bounds,
                     !.velocity.z = Div((0 - @) * restitution, 1000),
                     !.settleCounter = 0]
    ELSE die

WallCollisions(die) == WallZ(WallX(die))

\* "Check if settled" of update for a die that is not on the ground
Unsettled(die) == [die EXCEPT !.settleCounter = Max(0, @ - 1)]

\* the die is in flight and does not spin: the move of update(dt) leaves it
\* more than its collision radius above the ground
InFlight(die, dt) ==
    /\ ~die.settled
    /\ die.angularVelocity = ZeroVec
    /\ Flown(Damped(die, dt), dt).position.y - 86600 > 1000

PhysicsDieUpdate(die, dt) == Unsettled(WallCollisions(Flown(Damped(die, dt), dt)))

(***************************************************************************)
(* js/collision.js: DiceCollisionSystem.resolveCollision                   *)
(***************************************************************************)
\* PHYSICS.diceRestitution of js/physics.js, per mille
diceRestitution == 350

\* die.applyImpulse(force, torque)
applyImpulse(die, force, torque) ==
    [die EXCEPT !.velocity = AddVec(@, force),
                !.angularVelocity = AddVec(@, torque),
                !.settled = FALSE,
                !.settleCounter = 0]

\* 1. the die moved by sign * normal * depth * 0.5
Separated(die, normal, depth, sign) ==
    [die EXCEPT !.position = Vec(@.x + sign * Div(normal.x * depth, 20000),
                                 @.y + sign * Div(normal.y * depth, 20000),
                                 @.z + sign * Div(normal.z * depth, 20000))]

\* 4. to 6. for one die: the impulse on its velocity, 0.3 (r x impulse) on its
\* angular velocity, r = contactPoint - position in mm, and the settle counter
Struck(die, contactPoint, impulse, sign) ==
    LET rx == Div(contactPoint.x - die.position.x, 100)
        ry == Div(contactPoint.y - die.position.y, 100)
        rz == Div(contactPoint.z - die.position.z, 100)
    IN  [die EXCEPT
           !.velocity = Vec(@.x + sign * impulse.x, @.y + sign * impulse.y,
                            @.z + sign * impulse.z),
           !.angularVelocity =
               Vec(@.x + sign * Div((ry * impulse.z - rz * impulse.y) * 3, 10000),
                   @.y + sign * Div((rz * impulse.x - rx * impulse.z) * 3, 10000),
                   @.z + sign * Div((rx * impulse.y - ry * impulse.x) * 3, 10000)),
           !.settled = FALSE,
           !.settleCounter = 0]

\* 4. to 6. for the two dice
StruckPair(dieA, dieB, contactPoint, impulse) ==
    << Struck(dieA, contactPoint, impulse, 1), Struck(dieB, contactPoint, impulse, 0 - 1) >>

\* 3. impulseMagnitude = -(1 + restitution) * normalVel / 2, along the normal
ResolveImpulse(dieA, dieB, normal, contactPoint, normalVel) ==
    IF normalVel > 0
    THEN << dieA, dieB >>
    ELSE StruckPair(dieA, dieB, contactPoint,
                    Vec(Div(normal.x * Div((0 - (1000 + diceRestitution)) * normalVel, 2000), 10000),
                        Div(normal.y * Div((0 - (1000 + diceRestitution)) * normalVel, 2000), 10000),
                        Div(normal.z * Div((0 - (1000 + diceRestitution)) * normalVel, 2000), 10000)))

\* 2. the relative velocity of the two dice at the contact point, along the normal
ResolveRelative(dieA, dieB, normal, contactPoint, velA, velB) ==
    ResolveImpulse(dieA, dieB, normal, contactPoint,
                   Div((velA.x - velB.x) * normal.x + (velA.y - velB.y) * normal.y
                         + (velA.z - velB.z) * normal.z, 10000))

ResolveSeparated(dieA, dieB, normal, contactPoint) ==
    ResolveRelative(dieA, dieB, normal, contactPoint,
                    getVelocityAtPoint(dieA, contactPoint),
                    getVelocityAtPoint(dieB, contactPoint))

\* collision = [dieA, dieB, depth, normal, contactPoint]; the result is the two
\* dice as the call leaves them
resolveCollision(collision) ==
    ResolveSeparated(Separated(collision.dieA, collision.normal, collision.depth, 1),
                     Separated(collision.dieB, collision.normal, collision.depth, 0 - 1),
                     collision.normal, collision.contactPoint)

(***************************************************************************)
(* js/physics/collision.js: dice against dice.  Distances are taken in     *)
(* millimetres here so that their squares fit.                             *)
(***************************************************************************)
\* "Wake up settled bodies only if hit hard enough"
SphereWake(body, wake) ==
    IF wake /\ body.isSettled
    THEN [body EXCEPT !.isSettled = FALSE, !.settleTimer = 0]
    ELSE body

\* the impulse (ix, iy, iz) and the spin (sx, sz) a body gets when relVelN is
\* below -DICE_VELOCITY_THRESHOLD ("Only apply impulse if approaching fast enough")
SphereImpulse(body, hit, ix, iy, iz, sx, sz) ==
    IF hit
    THEN [body EXCEPT !.velocity = Vec(@.x + ix * inverseMass,
                                       @.y + iy * inverseMass,
                                       @.z + iz * inverseMass),
                      !.angularVelocity = Vec(@.x + sx, @.y, @.z + sz)]
    ELSE body

\* the position correction (cx, cy, cz) that pushes a body apart
SphereCorrection(body, apart, cx, cy, cz) ==
    IF apart
    THEN [body EXCEPT !.position = Vec(@.x + cx, @.y + cy, @.z + cz)]
    ELSE body

\* the response that gives the impulse to body a alone
SphereResponse_oneSided(bs, a, b, nx, ny, nz, penetration, wake, hit, j) ==
    [bs EXCEPT
       ![a] = SphereImpulse(SphereWake(@, wake), hit, Div(j * nx, 10000),
                            Div(j * ny, 10000), Div(j * nz, 10000), 0, 0),
       ![b] = SphereWake(@, wake)]

\* the response to a contact with normal (nx, ny, nz) from a to b, impulse
\* magnitude j along it and the given penetration
SphereResponse(bs, a, b, nx, ny, nz, penetration, wake, hit, j) ==
    LET impulseX == Div(j * nx, 10000)
        impulseY == Div(j * ny, 10000)
        impulseZ == Div(j * nz, 10000)
        spinX    == Div(Div(ny * nz, 10000) * j * 3, 100000)
        spinZ    == Div(Div(nx * ny, 10000) * j * 3, 100000)
        cx       == Div(nx * penetration * 3, 2000)
        cy       == Div(ny * penetration * 3, 2000)
        cz       == Div(nz * penetration * 3, 2000)
    IN  [bs EXCEPT
           ![a] = SphereCorrection(
                      SphereImpulse(SphereWake(@, wake), hit,
                                    impulseX, impulseY, impulseZ, spinX, spinZ),
                      penetration > 1, 0 - cx, 0 - cy, 0 - cz),
           ![b] = SphereCorrection(
                      SphereImpulse(SphereWake(@, wake), hit,
                                    0 - impulseX, 0 - impulseY, 0 - impulseZ,
                                    0 - spinX, 0 - spinZ),
                      penetration > 1, cx, cy, cz)]

\* the relative velocity of the two bodies along the normal and in all
SphereRelative(bs, a, b, nx, ny, nz, penetration, relVelX, relVelY, relVelZ, relVelN) ==
    SphereResponse(bs, a, b, nx, ny, nz, penetration,
                   Sqrt(relVelX * relVelX + relVelY * relVelY + relVelZ * relVelZ) > 500,
                   relVelN < 0 - DICE_VELOCITY_THRESHOLD,
                   Div((0 - (1000 + DICE_RESTITUTION)) * relVelN,
                       1000 * (inverseMass + inverseMass)))

\* the contact of two overlapping bodies with the normal (nx, ny, nz) from a to b
SphereNormal(bs, a, b, nx, ny, nz, penetration) ==
    SphereRelative(bs, a, b, nx, ny, nz, penetration,
                   bs[a].velocity.x - bs[b].velocity.x,
                   bs[a].velocity.y - bs[b].velocity.y,
                   bs[a].velocity.z - bs[b].velocity.z,
                   Div((bs[a].velocity.x - bs[b].velocity.x) * nx
                         + (bs[a].velocity.y - bs[b].velocity.y) * ny
                         + (bs[a].velocity.z - bs[b].velocity.z) * nz, 10000))

\* two bodies whose centres are dx, dy, dz and dist apart, closer than minDist
SphereOverlap(bs, a, b, dx, dy, dz, dist, minDist) ==
    SphereNormal(bs, a, b, Div(dx * 10000, dist), Div(dy * 10000, dist),
                 Div(dz * 10000, dist), minDist - dist)

resolveSphereCollision(bs, a, b) ==
    LET dx      == Div(bs[b].position.x - bs[a].position.x, 100)
        dy      == Div(bs[b].position.y - bs[a].position.y, 100)
        dz      == Div(bs[b].position.z - bs[a].position.z, 100)
        distSq  == dx * dx + dy * dy + dz * dz
        radiusA == Div(D6_HALF_SIZE * 13, 1000)
        radiusB == Div(D6_HALF_SIZE * 13, 1000)
        minDist == radiusA + radiusB
    IN  IF distSq >= minDist * minDist \/ distSq < 100
        THEN bs
        ELSE SphereOverlap(bs, a, b, dx, dy, dz, Sqrt(distSq), minDist)

\* the two nested loops of resolveDiceCollisions, from the pair (i, j) on
RECURSIVE DicePairLoop(_, _, _)
DicePairLoop(bs, i, j) ==
    IF i > Len(bs)
    THEN bs
    ELSE IF j > Len(bs)
         THEN DicePairLoop(bs, i + 1, i + 2)
         ELSE IF bs[i].isSettled /\ bs[j].isSettled
              THEN DicePairLoop(bs, i, j + 1)
              ELSE DicePairLoop(resolveSphereCollision(bs, i, j), i, j + 1)

\* resolveDiceCollisions that resolves no pair
resolveDiceCollisions_skip(bs) == bs

resolveDiceCollisions(bs) == DicePairLoop(bs, 1, 2)

(***************************************************************************)
(* What an observer of the steps of one body records.  These fields are    *)
(* not program state: only the properties read them.                       *)
(*   quietTicks   simulated time of the consecutive settling checks, up to *)
(*                the last one, that found the body below both thresholds  *)
(*   lastCheck    outcome of the body's last settling check                *)
(*   impulses     ground and wall impulses the body got in its last step   *)
(*   timerBefore  settleTimer when that step began                         *)
(*   timerImpulse settleTimer right after the collisions of that step      *)
(*   settledBy    who set isSettled: createDice or a step of the engine    *)
(*   snapFrom     lowest vertex of the body just before snapToGround       *)
(***************************************************************************)
NoTrace ==
    [quietTicks |-> 0, lastCheck |-> "none", impulses |-> 0, timerBefore |-> 0,
     timerImpulse |-> 0, settledBy |-> "none", snapFrom |-> 0, walls |-> 0, outside |-> 0,
     bounce |-> NoBounce, offNorm |-> 0, slip |-> NoSlip, wallFaults |-> 0,
     wallsInward |-> 0, eulerFaults |-> 0, uncleared |-> 0, forcedSteps |-> 0, pushes |-> 0]

\* the step that took the quaternion from q to r left it of norm 1 to within
\* 2e-4, or unchanged with a norm that is not above the epsilon of 1e-4
UnitOrUntouched(q, r) ==
    \/ Abs(QuaternionNorm(r) - 10000) <= 2
    \/ QuaternionNorm(r) <= 1 /\ r = q

\* the centre of the body is within the play area, half a die from each wall
Inside(body) ==
    /\ MIN_X + D6_HALF_SIZE <= body.position.x
    /\ body.position.x <= MAX_X - D6_HALF_SIZE
    /\ MIN_Z + D6_HALF_SIZE <= body.position.z
    /\ body.position.z <= MAX_Z - D6_HALF_SIZE

\* the walls of resolveWallCollisions that clamp a body
AtLeftWall(body)  == body.position.x - D6_HALF_SIZE < MIN_X
AtRightWall(body) == body.position.x + D6_HALF_SIZE > MAX_X
AtBackWall(body)  == body.position.z - D6_HALF_SIZE < MIN_Z
AtFrontWall(body) == body.position.z + D6_HALF_SIZE > MAX_Z

\* the body clamped against a wall moves outward through it
Outward(body) ==
    \/ AtLeftWall(body) /\ body.velocity.x < 0
    \/ AtRightWall(body) /\ body.velocity.x > 0
    \/ AtBackWall(body) /\ body.velocity.z < 0
    \/ AtFrontWall(body) /\ body.velocity.z > 0

\* wall resolution took the body from before to after: at every wall that
\* clamped it the velocity does not point outward afterwards, and is the one it
\* had if that did not point outward; the angular velocity of a body that moved
\* outward through no wall is the one it had
WallsTurnedBack(before, after) ==
    /\ AtLeftWall(before) =>
           /\ after.velocity.x >= 0
           /\ before.velocity.x >= 0 => after.velocity.x = before.velocity.x
    /\ AtRightWall(before) =>
           /\ after.velocity.x <= 0
           /\ before.velocity.x <= 0 => after.velocity.x = before.velocity.x
    /\ AtBackWall(before) =>
           /\ after.velocity.z >= 0
           /\ before.velocity.z >= 0 => after.velocity.z = before.velocity.z
    /\ AtFrontWall(before) =>
           /\ after.velocity.z <= 0
           /\ before.velocity.z <= 0 => after.velocity.z = before.velocity.z
    /\ ~Outward(before) => after.angularVelocity = before.angularVelocity

\* the sum of gravity, drag and the force accumulated on the body, which is
\* the force that integrate() uses
TotalForce(body) ==
    LET speed == getSpeed(body)
        drag  == IF speed > 1
                 THEN Vec(0 - Div(Div(body.velocity.x * speed, 1000) * LINEAR_DRAG, 1000),
                          0 - Div(Div(body.velocity.y * speed, 1000) * LINEAR_DRAG, 1000),
                          0 - Div(Div(body.velocity.z * speed, 1000) * LINEAR_DRAG, 1000))
                 ELSE ZeroVec
    IN  Vec(body.force.x + drag.x,
            body.force.y - GRAVITY * D6_MASS + drag.y,
            body.force.z + drag.z)

\* integrate(body, dt) took the body from before to after: the velocity is
\* advanced by the total force, and the position by the new velocity
SemiImplicit(before, after, dt) ==
    /\ after.velocity =
           Vec(before.velocity.x + Div(TotalForce(before).x * inverseMass * dt, 480),
               before.velocity.y + Div(TotalForce(before).y * inverseMass * dt, 480),
               before.velocity.z + Div(TotalForce(before).z * inverseMass * dt, 480))
    /\ after.position =
           Vec(before.position.x + Div(after.velocity.x * 100 * dt, 480),
               before.position.y + Div(after.velocity.y * 100 * dt, 480),
               before.position.z + Div(after.velocity.z * 100 * dt, 480))

\* the body carries an accumulated force or torque
Forced(body) == body.force # ZeroVec \/ body.torque # ZeroVec

\* what the observer notes of the integration that took the body to after
EulerNotes(tr, body, after, dt) ==
    [eulerFaults |-> tr.eulerFaults + (IF SemiImplicit(body, after, dt) THEN 0 ELSE 1),
     uncleared   |-> tr.uncleared + (IF Forced(after) THEN 1 ELSE 0),
     forcedSteps |-> tr.forcedSteps + (IF Forced(body) THEN 1 ELSE 0)]

\* the loop body of step(dt) without the skip of settled bodies
StepBody_noSkip(body, tr, dt) ==
    [body  |-> checkSettling(resolveWallCollisions(resolveGroundCollision(integrate(body, dt))), dt),
     trace |-> tr]

\* what the observer notes of the step that took body through the ground
\* collision (ground), the walls (walled) and the settling check (checked)
StepNotes(body, tr, dt, ground, walled, checked, quiet) ==
    [body  |-> checked,
     trace |-> [quietTicks   |-> IF quiet THEN tr.quietTicks + dt ELSE 0,
                lastCheck    |-> IF quiet THEN "quiet" ELSE "loud",
                impulses     |-> ground.impulses
                                   + (IF walled.velocity # ground.body.velocity THEN 1 ELSE 0),
                timerBefore  |-> body.settleTimer,
                timerImpulse |-> walled.settleTimer,
                settledBy    |-> IF checked.isSettled THEN "step" ELSE tr.settledBy,
                snapFrom     |-> IF checked.isSettled THEN MinVertexY(walled)
                                 ELSE tr.snapFrom,
                walls        |-> tr.walls
                                   + (IF walled.position # ground.body.position THEN 1 ELSE 0),
                outside      |-> tr.outside + (IF Inside(checked) THEN 0 ELSE 1),
                bounce       |-> Worse(tr.bounce, ground.bounce),
                slip         |-> Slipperier(tr.slip, ground.slip),
                eulerFaults  |-> EulerNotes(tr, body, integrate(body, dt), dt).eulerFaults,
                uncleared    |-> EulerNotes(tr, body, integrate(body, dt), dt).uncleared,
                forcedSteps  |-> EulerNotes(tr, body, integrate(body, dt), dt).forcedSteps,
                pushes       |-> tr.pushes,
                wallFaults   |-> tr.wallFaults
                                   + (IF WallsTurnedBack(ground.body, walled) THEN 0 ELSE 1),
                wallsInward  |-> tr.wallsInward
                                   + (IF walled.position # ground.body.position
                                         /\ ~Outward(ground.body) THEN 1 ELSE 0),
                offNorm      |-> tr.offNorm
                                   + (IF UnitOrUntouched(body.quaternion, checked.quaternion)
                                      THEN 0 ELSE 1)]]

\* the settling check of the step
StepCheck(body, tr, dt, ground, walled) ==
    StepNotes(body, tr, dt, ground, walled, checkSettling(walled, dt), BelowThresholds(walled))

\* the wall collisions of the step
StepWalls(body, tr, dt, ground) ==
    StepCheck(body, tr, dt, ground, resolveWallCollisions(ground.body))

\* The body of the loop of step(dt) for one body, and what the observer notes
StepBody(body, tr, dt) ==
    IF body.isSettled
    THEN [body |-> body, trace |-> tr]
    ELSE StepWalls(body, tr, dt, GroundContact(integrate(body, dt)))

\* step(dt): the loop over the bodies, from body i on; bt[i] = [body, trace]
RECURSIVE StepLoop(_, _, _, _)
StepLoop(bt, dt, i, out) ==
    IF i > Len(bt)
    THEN out
    ELSE StepLoop(bt, dt, i + 1, Append(out, StepBody(bt[i].body, bt[i].trace, dt)))

step(bt, dt) == StepLoop(bt, dt, 1, << >>)

\* the while loop of update with > in place of >=
RECURSIVE UpdateLoop_strict(_, _)
UpdateLoop_strict(e, fixedDt) ==
    IF e.accumulator > fixedDt
    THEN UpdateLoop_strict([bt          |-> step(e.bt, fixedDt),
                            accumulator |-> e.accumulator - fixedDt,
                            steps       |-> e.steps + 1],
                           fixedDt)
    ELSE e

\* update(deltaTime): the while loop.  e = [bt, accumulator, steps]
RECURSIVE UpdateLoop(_, _)
UpdateLoop(e, fixedDt) ==
    IF e.accumulator >= fixedDt
    THEN UpdateLoop([bt          |-> step(e.bt, fixedDt),
                     accumulator |-> e.accumulator - fixedDt,
                     steps       |-> e.steps + 1],
                    fixedDt)
    ELSE e

\* The engine as the loop sees it, with the observer's notes beside each body
Zip(bs, tr, acc) ==
    [bt          |-> [i \in 1..Len(bs) |-> [body |-> bs[i], trace |-> tr[i]]],
     accumulator |-> acc,
     steps       |-> 0]

Unzip(e) ==
    [bodies      |-> [i \in 1..Len(e.bt) |-> e.bt[i].body] \o << >>,
     trace       |-> [i \in 1..Len(e.bt) |-> e.bt[i].trace] \o << >>,
     accumulator |-> e.accumulator,
     steps       |-> e.steps]

\* update without the clamp of deltaTime
update_noClamp(bs, tr, acc, deltaTime, fixedDt) ==
    Unzip(UpdateLoop(Zip(bs, tr, acc + deltaTime), fixedDt))

\* update that throws away what is left in the accumulator
update_dropRemainder(bs, tr, acc, deltaTime, fixedDt) ==
    [Unzip(UpdateLoop(Zip(bs, tr, acc + Min(deltaTime, MAX_ACCUMULATOR)), fixedDt))
       EXCEPT !.accumulator = 0]

\* update(deltaTime) on an engine with these bodies and this accumulator
update(bs, tr, acc, deltaTime, fixedDt) ==
    LET dt == Min(deltaTime, MAX_ACCUMULATOR)
    IN  Unzip(UpdateLoop(Zip(bs, tr, acc + dt), fixedDt))

(***************************************************************************)
(* What an observer of resolveDiceCollisions reads off two bodies before   *)
(* the call: whether resolveSphereCollision finds them in contact, and     *)
(* their relative speed in mm/s                                            *)
(***************************************************************************)
SphereContact(bodyA, bodyB) ==
    LET dx      == Div(bodyB.position.x - bodyA.position.x, 100)
        dy      == Div(bodyB.position.y - bodyA.position.y, 100)
        dz      == Div(bodyB.position.z - bodyA.position.z, 100)
        distSq  == dx * dx + dy * dy + dz * dz
        minDist == 2 * Div(D6_HALF_SIZE * 13, 1000)
    IN  distSq < minDist * minDist /\ distSq >= 100

RelSpeed(bodyA, bodyB) ==
    LET relVelX == bodyA.velocity.x - bodyB.velocity.x
        relVelY == bodyA.velocity.y - bodyB.velocity.y
        relVelZ == bodyA.velocity.z - bodyB.velocity.z
    IN  Sqrt(relVelX * relVelX + relVelY * relVelY + relVelZ * relVelZ)

\* the normal from bodyA to bodyB of resolveSphereCollision, in 1e-4
SphereNormalOf(bodyA, bodyB) ==
    LET dx   == Div(bodyB.position.x - bodyA.position.x, 100)
        dy   == Div(bodyB.position.y - bodyA.position.y, 100)
        dz   == Div(bodyB.position.z - bodyA.position.z, 100)
        dist == Sqrt(dx * dx + dy * dy + dz * dz)
    IN  Vec(Div(dx * 10000, dist), Div(dy * 10000, dist), Div(dz * 10000, dist))

\* relVelN: the velocity of bodyA relative to bodyB along the normal n, mm/s
RelVelN(bodyA, bodyB, n) ==
    Div((bodyA.velocity.x - bodyB.velocity.x) * n.x
          + (bodyA.velocity.y - bodyB.velocity.y) * n.y
          + (bodyA.velocity.z - bodyB.velocity.z) * n.z, 10000)

\* the pairs (a settled, b not) that are in contact with each other and with
\* no third body, so that the pair is resolved on the state the observer saw
ContactPairs(bs) ==
    {p \in (1..Len(bs)) \X (1..Len(bs)) :
        /\ bs[p[1]].isSettled
        /\ ~bs[p[2]].isSettled
        /\ SphereContact(bs[p[1]], bs[p[2]])
        /\ \A c \in 1..Len(bs) : c \notin {p[1], p[2]} =>
               ~SphereContact(bs[p[1]], bs[c]) /\ ~SphereContact(bs[p[2]], bs[c])}

(***************************************************************************)
(* Bounds of the exploration                                               *)
(***************************************************************************)
\* resetBody calls in one behaviour
MaxResets == 1
\* update() calls with a delta below MAX_ACCUMULATOR in one behaviour
MaxFine == 1
\* simulated ticks a roll may stay in flight before the clock stops
MaxFlightTicks == 1040
\* simulated ticks fed to the two engines that are compared
MaxElapsed == 360
\* simulated ticks of flight in a behaviour whose dice are reset at any time
MaxResetTicks == 48
\* simulated ticks a dropped die is followed: 3.1 s
MaxDropTicks == 1488

\* dice on the table: this.diceCount of DiceApp after the "2" button
DiceCount == 2

\* deltaTime of animate(): a 160 Hz frame and a stalled tab
Deltas == {3, 100}

\* deltas of the frames into which elapsed time is split for the comparison
SplitDeltas == {27, 48}

\* what the Math.random() calls of applyRollImpulse may have returned
RollDraws ==
    { [vx |-> 0 - 2000, vz |-> 0, wx |-> 3000, wy |-> 0 - 2000, wz |-> 5000,
       q |-> [w |-> 6000, x |-> 8000, y |-> 0, z |-> 0]] }

\* x of die i in createDice and in roll (Math.random() = 0.5), and the drop
\* height of roll (Math.random() = 0)
CreateX(i) == (0 - ((DiceCount - 1) * 150000) \div 2) + (i - 1) * 150000
RollX(i) == (0 - ((DiceCount - 1) * 180000) \div 2) + (i - 1) * 180000
DropHeight == 400000

(***************************************************************************)
(* The engine with the dice of DiceApp                                     *)
(*   bodies, accumulator   PhysicsEngine                                   *)
(*   fixedTimestep         PHYSICS.FIXED_TIMESTEP                          *)
(*   trace                 per body, what the observer of its steps saw    *)
(*   last                  the last call and what it did                   *)
(*   fresh                 bodies reset by the roll in progress that have  *)
(*                         not got their roll impulse yet                  *)
(*   budget                calls and simulated time used so far            *)
(*   ref                   a second engine, fed the same elapsed time in   *)
(*                         deltas of one tick                              *)
(*   app                   the DiceApp of js/app.js with its PhysicsDie    *)
(***************************************************************************)
VARIABLES bodies, accumulator, fixedTimestep, trace, last, fresh, budget, ref, app, diceApp

vars == << bodies, accumulator, fixedTimestep, trace, last, fresh, budget, ref, app, diceApp >>

Dice == 1..DiceCount

NoCall ==
    [op |-> "createDice", body |-> 0, delta |-> 0, accBefore |-> 0, steps |-> 0,
     fixedDt |-> FIXED_TIMESTEP_240, fixedPrev |-> FIXED_TIMESTEP_240,
     settledBefore |-> {}, poses |-> << >>, contact |-> {}, hard |-> {},
     at |-> ZeroVec, was |-> RigidBody(0, 0, 0), before |-> << >>,
     options |-> D6Options, finite |-> TRUE]

\* the call that is not an update keeps what is known of the last update
Call(op, i) ==
    [NoCall EXCEPT !.op = op, !.body = i,
                   !.fixedDt = last.fixedDt, !.fixedPrev = last.fixedPrev]

\* createDice() of js/app.js with this.diceCount = 1: the dice are dropped, then
\* one die of this.diceType is made, which getDiceConfig refuses for a type that
\* the registry does not have
createDice(a) ==
    IF a.diceType \in DICE_TYPES
    THEN [a EXCEPT !.physicsDice =
                      << [PhysicsDie(getDiceConfig(a.diceType)) EXCEPT !.settled = TRUE] >>,
                   !.error = "none"]
    ELSE [a EXCEPT !.physicsDice = << >>, !.error = "Unknown dice type"]

\* new DiceApp() of js/app.js
NewApp ==
    createDice([diceType |-> "d6", isRolling |-> FALSE, physicsDice |-> << >>,
                results |-> << >>, d6Results |-> << >>, error |-> "none",
                call |-> "createDice", before |-> << >>, wallFaults |-> 0,
                visible |-> FALSE, rolled |-> FALSE])

\* new DiceApp() of the application that runs the engine: isRolling, whether
\* the result carries the class visible, and whether roll() launched the
\* bodies that createDice() made
NewDiceApp == [isRolling |-> FALSE, visible |-> FALSE, rolled |-> FALSE, call |-> "createDice"]

\* new PhysicsEngine() followed by createDice()
Init ==
    /\ bodies = [i \in Dice |->
                   [createD6Body(CreateX(i), D6_REST_HEIGHT, 0) EXCEPT !.isSettled = TRUE]]
    /\ accumulator = 0
    /\ fixedTimestep = FIXED_TIMESTEP_240
    /\ trace = [i \in Dice |-> [NoTrace EXCEPT !.settledBy = "createDice"]]
    /\ last = NoCall
    /\ fresh = {}
    /\ budget = [resets |-> 0, fine |-> 0, flight |-> 0]
    /\ ref = [bodies |-> bodies, accumulator |-> 0, steps |-> 0, engineSteps |-> 0,
              elapsed |-> 0]
    /\ app = NewApp
    /\ diceApp = NewDiceApp

SettledSet(bs) == {i \in 1..Len(bs) : bs[i].isSettled}

Pose(body) ==
    [position |-> body.position, quaternion |-> body.quaternion,
     value |-> getD6Value(body)]

\* physicsEngine.update(deltaTime), as animate() calls it
Update(deltaTime) ==
    /\ \E r \in {update(bodies, trace, accumulator, deltaTime, fixedTimestep)} :
           /\ bodies' = r.bodies
           /\ trace' = r.trace
           /\ accumulator' = r.accumulator
           /\ last' = [NoCall EXCEPT !.op = "update",
                                     !.delta = deltaTime,
                                     !.accBefore = accumulator,
                                     !.steps = r.steps,
                                     !.fixedDt = fixedTimestep,
                                     !.fixedPrev = last.fixedDt,
                                     !.settledBefore = SettledSet(bodies),
                                     !.poses = [i \in SettledSet(bodies) |-> Pose(bodies[i])]]
           /\ budget' = [budget EXCEPT
                           !.fine = IF deltaTime < MAX_ACCUMULATOR THEN @ + 1 ELSE @,
                           !.flight = IF allSettled(bodies) THEN @
                                      ELSE @ + r.steps * fixedTimestep]
    /\ fresh' = {}
    /\ UNCHANGED fixedTimestep

\* the frames the exploration still allows
WithinBudget(deltaTime) ==
    /\ deltaTime < MAX_ACCUMULATOR => budget.fine < MaxFine
    /\ ~allSettled(bodies) => budget.flight < MaxFlightTicks

\* physicsEngine.resetBody(body, x, dropHeight, z), as roll() calls it: roll()
\* returns at once while a roll is in progress
ResetBody(i) ==
    /\ budget.resets < MaxResets
    /\ allSettled(bodies) \/ last.op \in {"resetBody", "applyRollImpulse"}
    /\ bodies' = [bodies EXCEPT ![i] = resetBody(@, RollX(i), DropHeight, 0)]
    /\ trace' = [trace EXCEPT ![i] = NoTrace]
    /\ last' = Call("resetBody", i)
    /\ fresh' = fresh \cup {i}
    /\ budget' = [budget EXCEPT !.resets = @ + 1, !.flight = 0]
    /\ UNCHANGED << accumulator, fixedTimestep >>

\* applyRollImpulse(body), as roll() calls it right after resetBody
ApplyRollImpulse(i, draw) ==
    /\ i \in fresh
    /\ bodies' = [bodies EXCEPT ![i] = applyRollImpulse(@, draw)]
    /\ last' = Call("applyRollImpulse", i)
    /\ fresh' = fresh \ {i}
    /\ UNCHANGED << accumulator, fixedTimestep, trace, budget >>

\* setPotatoMode(enabled), between two rolls
SetPotatoMode(enabled) ==
    /\ allSettled(bodies)
    /\ fresh = {}
    /\ fixedTimestep' = IF enabled THEN FIXED_TIMESTEP_120 ELSE FIXED_TIMESTEP_240
    /\ last' = Call("setPotatoMode", 0)
    /\ UNCHANGED << bodies, accumulator, trace, fresh, budget >>

Next ==
    \/ \E deltaTime \in Deltas :
          WithinBudget(deltaTime) /\ Update(deltaTime) /\ UNCHANGED << ref, app, diceApp >>
    \/ \E i \in Dice : ResetBody(i) /\ UNCHANGED << ref, app, diceApp >>
    \/ \E i \in Dice, draw \in RollDraws : ApplyRollImpulse(i, draw) /\ UNCHANGED << ref, app, diceApp >>
    \/ \E enabled \in BOOLEAN : SetPotatoMode(enabled) /\ UNCHANGED << ref, app, diceApp >>

Spec == Init /\ [][Next]_vars

(***************************************************************************)
(* Two engines on one clock: every call reaches both, but the second one   *)
(* gets each frame's delta as that many update() calls of one tick         *)
(***************************************************************************)
\* e = [bodies, accumulator, steps, left]: left ticks are still to be fed

\* the second engine after an update of one tick that returned r
FedTick(e, r) ==
    [bodies |-> r.bodies, accumulator |-> r.accumulator,
     steps |-> e.steps + r.steps, left |-> e.left - 1]

RECURSIVE FeedTicks(_, _)
FeedTicks(e, fixedDt) ==
    IF e.left = 0
    THEN e
    ELSE FeedTicks(FedTick(e, update(e.bodies, [i \in 1..Len(e.bodies) |-> NoTrace] \o << >>,
                                     e.accumulator, 1, fixedDt)),
                   fixedDt)

SplitUpdate(deltaTime) ==
    /\ ref.elapsed + deltaTime <= MaxElapsed
    /\ Update(deltaTime)
    /\ \E e \in {FeedTicks([bodies |-> ref.bodies, accumulator |-> ref.accumulator,
                            steps |-> ref.steps, left |-> deltaTime], fixedTimestep)} :
           ref' = [bodies |-> e.bodies, accumulator |-> e.accumulator, steps |-> e.steps,
                   engineSteps |-> ref.engineSteps + last'.steps,
                   elapsed |-> ref.elapsed + deltaTime]

NextSplit ==
    \/ \E deltaTime \in SplitDeltas : SplitUpdate(deltaTime) /\ UNCHANGED << app, diceApp >>
    \/ \E i \in Dice :
          /\ ref.elapsed = 0
          /\ ResetBody(i)
          /\ ref' = [ref EXCEPT !.bodies[i] = resetBody(@, RollX(i), DropHeight, 0)]
          /\ UNCHANGED << app, diceApp >>
    \/ \E i \in Dice, draw \in RollDraws :
          /\ ApplyRollImpulse(i, draw)
          /\ ref' = [ref EXCEPT !.bodies[i] = applyRollImpulse(@, draw)]
          /\ UNCHANGED << app, diceApp >>

SpecSplit == Init /\ [][NextSplit]_vars

(***************************************************************************)
(* The engine with a caller of resolveDiceCollisions, which the README     *)
(* describes and no code of the repository calls.  The exploration ends    *)
(* with the call.                                                          *)
(***************************************************************************)
DiceCollisions ==
    /\ \E r \in {resolveDiceCollisions(bodies)} : bodies' = r
    /\ last' = [Call("resolveDiceCollisions", 0) EXCEPT
                  !.settledBefore = SettledSet(bodies),
                  !.before = bodies,
                  !.contact = {p[1] : p \in ContactPairs(bodies)},
                  !.hard = {p[1] : p \in {c \in ContactPairs(bodies) :
                                            RelSpeed(bodies[c[1]], bodies[c[2]]) > 500}}]
    /\ UNCHANGED << accumulator, fixedTimestep, trace, fresh, budget >>

\* no call follows the call of resolveDiceCollisions
Open == last.op # "resolveDiceCollisions"

NextCollide ==
    \/ \E deltaTime \in Deltas :
          Open /\ WithinBudget(deltaTime) /\ Update(deltaTime) /\ UNCHANGED << ref, app, diceApp >>
    \/ \E i \in Dice : Open /\ ResetBody(i) /\ UNCHANGED << ref, app, diceApp >>
    \/ \E i \in Dice, draw \in RollDraws :
          Open /\ ApplyRollImpulse(i, draw) /\ UNCHANGED << ref, app, diceApp >>
    \/ \E enabled \in BOOLEAN : Open /\ SetPotatoMode(enabled) /\ UNCHANGED << ref, app, diceApp >>
    \/ Open /\ DiceCollisions /\ UNCHANGED << ref, app, diceApp >>

SpecCollide == Init /\ [][NextCollide]_vars

(***************************************************************************)
(* The engine with dice that are thrown hard: after resetBody a die gets   *)
(* an impulse at its centre that sends it to the walls                     *)
(***************************************************************************)
\* the throws: an impulse of 30 kg m/s along x and along z at the centre, one for
\* each pair of walls, and one 0.15 m above the centre, which spins the die at
\* 38 rad/s
LaunchDraws ==
    { [impulse |-> Vec(30000, 0, 30000), arm |-> ZeroVec],
      [impulse |-> Vec(0 - 30000, 0, 0 - 30000), arm |-> ZeroVec],
      [impulse |-> Vec(0 - 30000, 0, 30000), arm |-> Vec(0, 15000, 0)] }

\* body.applyImpulseAtPoint(impulse, point) on a die that was just reset, point
\* being arm away from its centre
Launch(i, draw) ==
    /\ i \in fresh
    /\ bodies' = [bodies EXCEPT ![i] =
                     applyImpulseAtPoint(@, draw.impulse, AddVec(@.position, draw.arm))]
    /\ last' = Call("applyImpulseAtPoint", i)
    /\ fresh' = fresh \ {i}
    /\ UNCHANGED << accumulator, fixedTimestep, trace, budget >>

\* the turns given to a die: 106 degrees about y, and half a turn about an axis
\* of length zero, which leaves a quaternion of norm 0
TurnDraws ==
    { [axis |-> Vec(0, 10000, 0), cosHalf |-> 6000, sinHalf |-> 8000],
      [axis |-> ZeroVec, cosHalf |-> 0, sinHalf |-> 10000] }

\* body.setFromAxisAngle(axis, angle) on a die that was just reset
Turn(i, draw) ==
    /\ i \in fresh
    /\ last.op = "resetBody"
    /\ bodies' = [bodies EXCEPT ![i] =
                     setFromAxisAngle(@, draw.axis, draw.cosHalf, draw.sinHalf)]
    /\ last' = Call("setFromAxisAngle", i)
    /\ UNCHANGED << accumulator, fixedTimestep, trace, fresh, budget >>

\* deltaTime of animate() while the dice are thrown: a stalled tab
LaunchDeltas == {100}

NextLaunch ==
    \/ \E deltaTime \in LaunchDeltas :
          WithinBudget(deltaTime) /\ Update(deltaTime) /\ UNCHANGED << ref, app, diceApp >>
    \/ \E i \in Dice : ResetBody(i) /\ UNCHANGED << ref, app, diceApp >>
    \/ \E i \in Dice, draw \in LaunchDraws : Launch(i, draw) /\ UNCHANGED << ref, app, diceApp >>
    \/ \E i \in Dice, draw \in TurnDraws : Turn(i, draw) /\ UNCHANGED << ref, app, diceApp >>

SpecLaunch == Init /\ [][NextLaunch]_vars

(***************************************************************************)
(* Two dice put next to each other and pushed, then one call of            *)
(* resolveDiceCollisions.  The places and pushes stand for the places and  *)
(* velocities in which a roll leaves two dice.                             *)
(***************************************************************************)
\* where die i is put: die 1 where createDice made it; die 2 at 1 m from it
\* along x, at 1.04 m from it off every axis, at 5 mm from it, and at 1.5 m
SpherePlaces(i) ==
    IF i = 1
    THEN { Vec(CreateX(1), D6_REST_HEIGHT, 0) }
    ELSE { Vec(CreateX(1) + 100000, D6_REST_HEIGHT, 0),
           Vec(CreateX(1) + 60000, D6_REST_HEIGHT + 80000, 30000),
           Vec(CreateX(1) + 500, D6_REST_HEIGHT, 0),
           Vec(CreateX(1) + 150000, D6_REST_HEIGHT, 0) }

\* the pushes: 1 m/s along x either way, 0.03 m/s, 0.37 m/s off every axis, and
\* 0.4 m/s given 0.1 m above the centre, which also spins the die
SphereDraws ==
    { [impulse |-> Vec(1000, 0, 0), arm |-> ZeroVec],
      [impulse |-> Vec(0 - 1000, 0, 0), arm |-> ZeroVec],
      [impulse |-> Vec(30, 0, 0), arm |-> ZeroVec],
      [impulse |-> Vec(200, 0 - 300, 100), arm |-> ZeroVec],
      [impulse |-> Vec(0 - 400, 0, 0), arm |-> Vec(0, 10000, 0)] }

\* physicsEngine.resetBody(body, x, y, z) on a die that createDice left settled
Place(i, at) ==
    /\ bodies[i].isSettled
    /\ bodies' = [bodies EXCEPT ![i] = resetBody(@, at.x, at.y, at.z)]
    /\ trace' = [trace EXCEPT ![i] = NoTrace]
    /\ last' = [Call("resetBody", i) EXCEPT !.at = at]
    /\ fresh' = fresh \cup {i}
    /\ UNCHANGED << accumulator, fixedTimestep, budget >>

\* the DiceApp of js/app.js is a program of its own: it runs while the engine
\* is as createDice left it, and the engine while that DiceApp is as it was made
AppIdle == app.call = "createDice"
EngineIdle == last.op = "createDice"

\* createDice() of js/app.js making its second die, 1.5 m from the first
SecondDie ==
    /\ EngineIdle
    /\ Len(app.physicsDice) = 1
    /\ app' = [app EXCEPT
                 !.physicsDice = Append(@, [PhysicsDie(getDiceConfig("d6")) EXCEPT
                                              !.position = Vec(150000, D6_REST_HEIGHT, 0),
                                              !.settled = TRUE]),
                 !.call = "new PhysicsDie"]
    /\ UNCHANGED << bodies, accumulator, fixedTimestep, trace, last, fresh, budget, ref, diceApp >>

\* the force and torque of roll(), and what is left of them in flight
ShoveDraws ==
    { [force |-> Vec(0 - 1000, 0, 0), torque |-> ZeroVec],
      [force |-> Vec(1000, 0, 0), torque |-> ZeroVec],
      [force |-> Vec(0 - 2500, 0 - 3000, 2500), torque |-> Vec(9000, 0 - 6000, 9000)] }

\* roll() for die i: position.set(x, dropHeight, z), applyImpulse(force, torque);
\* and the flight that brings the second die next to the first
Shove(i, draw) ==
    /\ EngineIdle
    /\ Len(app.physicsDice) = 2
    /\ i \in 1..2
    /\ app.physicsDice[i].settled
    /\ app.call # "resolveCollision"
    /\ app' = [app EXCEPT
                 !.physicsDice[i] = applyImpulse([@ EXCEPT !.position =
                                                      Vec((i - 1) * 90000, D6_REST_HEIGHT, 0)],
                                                 draw.force, draw.torque),
                 !.call = "applyImpulse"]
    /\ UNCHANGED << bodies, accumulator, fixedTimestep, trace, last, fresh, budget, ref, diceApp >>

\* what checkCollision may return for two dice 0.9 m apart: the depth, the
\* normal and the contact point
CollisionDraws ==
    { [depth |-> 20000, normal |-> Vec(0 - 10000, 0, 0),
       contactPoint |-> Vec(50000, D6_REST_HEIGHT + 50000, 50000)],
      [depth |-> 5000, normal |-> Vec(10000, 0, 0),
       contactPoint |-> Vec(40000, D6_REST_HEIGHT, 0)],
      [depth |-> 12000, normal |-> Vec(0 - 6000, 8000, 0),
       contactPoint |-> Vec(45000, D6_REST_HEIGHT - 50000, 0 - 50000)] }

\* detectAndResolve() for the two dice, one of them not settled:
\* this.resolveCollision(collision)
ResolveCollision(draw) ==
    /\ EngineIdle
    /\ Len(app.physicsDice) = 2
    /\ ~(app.physicsDice[1].settled /\ app.physicsDice[2].settled)
    /\ app.call # "resolveCollision"
    /\ \E r \in {resolveCollision([dieA |-> app.physicsDice[1], dieB |-> app.physicsDice[2],
                                     depth |-> draw.depth, normal |-> draw.normal,
                                     contactPoint |-> draw.contactPoint])} :
           app' = [app EXCEPT !.physicsDice = r, !.before = app.physicsDice,
                              !.call = "resolveCollision"]
    /\ UNCHANGED << bodies, accumulator, fixedTimestep, trace, last, fresh, budget, ref, diceApp >>

NextSphere ==
    \/ \E i \in Dice : \E at \in SpherePlaces(i) :
          AppIdle /\ Open /\ Place(i, at) /\ UNCHANGED << ref, app, diceApp >>
    \/ \E i \in Dice, draw \in SphereDraws :
          AppIdle /\ Open /\ Launch(i, draw) /\ UNCHANGED << ref, app, diceApp >>
    \/ AppIdle /\ Open /\ DiceCollisions /\ UNCHANGED << ref, app, diceApp >>
    \/ SecondDie
    \/ \E i \in 1..2, draw \in ShoveDraws : Shove(i, draw)
    \/ \E draw \in CollisionDraws : ResolveCollision(draw)

SpecSphere == Init /\ [][NextSphere]_vars

(***************************************************************************)
(* Bodies constructed with mass and inertia options, and the ground        *)
(* contacts of their vertices                                              *)
(***************************************************************************)
OptionSets == {D6Options, ImmovableOptions}

\* centres 0.3 m, 0.45 m and 0.49 m above the ground: the vertices of the lower
\* face are 0.2 m, 0.05 m and 0.01 m below it
ContactHeights == {30000, 45000, 49000}

\* the velocities the body is constructed with (options vx, vy, vz), mm/s
ContactVelocities ==
    {Vec(0, 0 - 1000, 0), Vec(0, 0 - 3000, 0), Vec(1000, 0 - 200, 0), Vec(0, 1000, 0),
     Vec(0 - 500, 0 - 2000, 700)}

\* new RigidBody({x, y, z, vx, vy, vz, mass, inertia})
Construct(options, y, velocity) ==
    /\ bodies' = [bodies EXCEPT ![1] = [RigidBody(0, y, 0) EXCEPT !.velocity = velocity]]
    /\ trace' = [trace EXCEPT ![1] = NoTrace]
    /\ last' = [Call("RigidBody", 1) EXCEPT !.options = options]
    /\ UNCHANGED << accumulator, fixedTimestep, fresh, budget >>

\* the body of the vertex loop of resolveGroundCollision for vertex k of the
\* constructed body, when the vertex is below the ground and moves into it
VertexContact(k) ==
    /\ last.op \in {"RigidBody", "resolveGroundCollision"}
    /\ last.finite
    /\ GROUND_Y - getWorldVertices(bodies[1])[k].y > 0
    /\ getVelocityAtPoint(bodies[1], getWorldVertices(bodies[1])[k]).y < 0
    /\ \E r \in {ContactImpulse(last.options, bodies[1], getWorldVertices(bodies[1])[k])} :
          /\ bodies' = [bodies EXCEPT ![1] = r.body]
          /\ last' = [Call("resolveGroundCollision", 1) EXCEPT
                         !.options = last.options,
                         !.finite = r.finite,
                         !.at = getWorldVertices(bodies[1])[k],
                         !.was = bodies[1]]
    /\ UNCHANGED << accumulator, fixedTimestep, trace, fresh, budget >>

NextOptions ==
    \/ \E options \in OptionSets, y \in ContactHeights, velocity \in ContactVelocities :
          Construct(options, y, velocity) /\ UNCHANGED << ref, app, diceApp >>
    \/ \E k \in 1..Len(D6_VERTICES) : VertexContact(k) /\ UNCHANGED << ref, app, diceApp >>

SpecOptions == Init /\ [][NextOptions]_vars

(***************************************************************************)
(* Dice put near a wall or beyond it and pushed towards it or away from    *)
(* it, in the engine and in the DiceApp of js/app.js                       *)
(***************************************************************************)
\* where a die is put: 0.2 m inside the right wall, 0.3 m beyond it, and in the
\* corner beyond the left and the back wall
WallPlaces ==
    { Vec(MAX_X - D6_HALF_SIZE - 20000, 200000, 0),
      Vec(MAX_X + 30000, 200000, 0),
      Vec(MIN_X - 30000, 200000, MIN_Z - 30000) }

\* the pushes: 3 m/s along x either way, and 3 m/s along x with 2 m/s along z
\* and a fall of 1 m/s
WallDraws ==
    { [impulse |-> Vec(3000, 0, 0), arm |-> ZeroVec],
      [impulse |-> Vec(0 - 3000, 0, 0), arm |-> ZeroVec],
      [impulse |-> Vec(3000, 0 - 1000, 2000), arm |-> ZeroVec] }

\* the wall part of update(dt) turned back the velocity of a die it clamped,
\* and kept a velocity that did not point outward
DieWallsTurnedBack(before, after) ==
    /\ Abs(before.position.x) > bounds =>
           /\ Sign(before.position.x) * after.velocity.x <= 0
           /\ Sign(before.position.x) * before.velocity.x <= 0 =>
                  after.velocity.x = before.velocity.x
    /\ Abs(before.position.z) > bounds =>
           /\ Sign(before.position.z) * after.velocity.z <= 0
           /\ Sign(before.position.z) * before.velocity.z <= 0 =>
                  after.velocity.z = before.velocity.z
    /\ after.angularVelocity = before.angularVelocity

\* physicsDie.position.set(x, y, z); physicsDie.applyImpulse(force, torque),
\* as roll() does, for a die that createDice left settled
Throw(at, draw) ==
    /\ EngineIdle
    /\ app.physicsDice[1].settled
    /\ app.call = "createDice"
    /\ app' = [app EXCEPT
                 !.physicsDice[1] = applyImpulse([@ EXCEPT !.position = at],
                                                 draw.impulse, ZeroVec),
                 !.isRolling = TRUE,
                 !.call = "roll"]
    /\ UNCHANGED << bodies, accumulator, fixedTimestep, trace, last, fresh, budget, ref, diceApp >>

\* one substep of animate(): this.physicsDice[i].update(subDt), subDt = 1/120 s
DieUpdate ==
    /\ EngineIdle
    /\ InFlight(app.physicsDice[1], 4)
    /\ app' = [app EXCEPT
                 !.physicsDice[1] = PhysicsDieUpdate(@, 4),
                 !.wallFaults = @ + (IF DieWallsTurnedBack(
                                           Flown(Damped(app.physicsDice[1], 4), 4),
                                           WallCollisions(Flown(Damped(app.physicsDice[1], 4), 4)))
                                     THEN 0 ELSE 1),
                 !.call = "update"]
    /\ UNCHANGED << bodies, accumulator, fixedTimestep, trace, last, fresh, budget, ref, diceApp >>

NextWalls ==
    \/ \E at \in WallPlaces : AppIdle /\ Place(1, at) /\ UNCHANGED << ref, app, diceApp >>
    \/ \E draw \in WallDraws : AppIdle /\ Launch(1, draw) /\ UNCHANGED << ref, app, diceApp >>
    \/ \E deltaTime \in LaunchDeltas :
          AppIdle /\ WithinBudget(deltaTime) /\ Update(deltaTime) /\ UNCHANGED << ref, app, diceApp >>
    \/ \E at \in WallPlaces, draw \in WallDraws : Throw(at, draw)
    \/ DieUpdate

SpecWalls == Init /\ [][NextWalls]_vars

(***************************************************************************)
(* The engine with dice that are dropped: resetBody at the height of       *)
(* roll() and no impulse, then update() frame after frame at the default   *)
(* timestep                                                                *)
(***************************************************************************)
DropUpdate(deltaTime) ==
    /\ deltaTime < MAX_ACCUMULATOR => budget.fine < MaxFine
    /\ ~allSettled(bodies) => budget.flight < MaxDropTicks
    /\ Update(deltaTime)

NextDrop ==
    \/ \E deltaTime \in Deltas : DropUpdate(deltaTime) /\ UNCHANGED << ref, app, diceApp >>
    \/ \E i \in Dice : ResetBody(i) /\ UNCHANGED << ref, app, diceApp >>

SpecDrop == Init /\ [][NextDrop]_vars

(***************************************************************************)
(* The engine with a caller that resets a body at any time, in flight or   *)
(* at rest, and that pushes bodies with applyForce and applyTorque         *)
(***************************************************************************)
\* where a body is put: the first die at the drop of roll(), the others flat on
\* the table
ResetPlaces(i) ==
    IF i = 1 THEN {Vec(RollX(i), DropHeight, 0)} ELSE {Vec(RollX(i), D6_REST_HEIGHT, 100000)}

\* physicsEngine.resetBody(body, at.x, at.y, at.z): one call more than a roll
\* of one die makes
ResetAt(i, at) ==
    /\ budget.resets <= MaxResets
    /\ bodies' = [bodies EXCEPT ![i] = resetBody(@, at.x, at.y, at.z)]
    /\ trace' = [trace EXCEPT ![i] = NoTrace]
    /\ last' = [Call("resetBody", i) EXCEPT !.at = at, !.was = bodies[i],
                                            !.accBefore = accumulator]
    /\ fresh' = fresh \cup {i}
    /\ budget' = [budget EXCEPT !.resets = @ + 1]
    /\ UNCHANGED << accumulator, fixedTimestep >>

\* body.applyForce(0, 5, 0) and body.applyTorque(1, 0, 2) on a body in flight,
\* between two frames
Push(i) ==
    /\ last.op = "update"
    /\ ~bodies[i].isSettled
    /\ bodies[i].force = ZeroVec
    /\ bodies' = [bodies EXCEPT ![i] = applyTorque(applyForce(@, 0, 5000, 0), 1000, 0, 2000)]
    /\ trace' = [trace EXCEPT ![i].pushes = @ + 1]
    /\ last' = Call("applyForce", i)
    /\ UNCHANGED << accumulator, fixedTimestep, fresh, budget >>

NextReset ==
    \/ \E deltaTime \in Deltas :
          /\ budget.flight < MaxResetTicks
          /\ WithinBudget(deltaTime)
          /\ Update(deltaTime)
          /\ UNCHANGED << ref, app, diceApp >>
    \/ \E i \in Dice : \E at \in ResetPlaces(i) : ResetAt(i, at) /\ UNCHANGED << ref, app, diceApp >>
    \/ \E i \in Dice, draw \in RollDraws : ApplyRollImpulse(i, draw) /\ UNCHANGED << ref, app, diceApp >>
    \/ \E i \in Dice : Push(i) /\ UNCHANGED << ref, app, diceApp >>

SpecReset == Init /\ [][NextReset]_vars

(***************************************************************************)
(* The DiceApp of js/app.js: a die type is chosen, the dice are rolled,    *)
(* they land and their values are read                                     *)
(***************************************************************************)
\* the unit quaternions with components among 0, 0.5, 0.6, 0.8 and 1: the 24
\* orientations of a cube at rest are among them, as are tilted ones
OrientationParts == {0, 5000, 0 - 5000, 6000, 0 - 6000, 8000, 0 - 8000, 10000, 0 - 10000}

Orientations ==
    {q \in [w : OrientationParts, x : OrientationParts, y : OrientationParts,
            z : OrientationParts] :
        q.w * q.w + q.x * q.x + q.y * q.y + q.z * q.z = 10000 * 10000}

\* the orientations setFromAxisAngle gives the dice in roll()
RollOrientations ==
    { [w |-> 6000, x |-> 8000, y |-> 0, z |-> 0], [w |-> 0, x |-> 0, y |-> 0, z |-> 10000] }

\* the names a type button may carry
ButtonTypes == DICE_TYPES \cup {"d10"}

\* the click on a type button: this.diceType = btn.dataset.type; this.createDice()
TypeButton(type) ==
    /\ app' = [createDice([app EXCEPT !.diceType = type]) EXCEPT
                 !.results = << >>, !.d6Results = << >>, !.call = "createDice",
                 !.visible = FALSE, !.rolled = FALSE]
    /\ UNCHANGED << bodies, accumulator, fixedTimestep, trace, last, fresh, budget, ref, diceApp >>

\* roll(): getDiceConfig throws for an unknown type after isRolling is set and
\* the result is hidden
Roll(q) ==
    /\ ~app.isRolling
    /\ app' = IF app.diceType \in DICE_TYPES
              THEN [app EXCEPT !.isRolling = TRUE, !.call = "roll",
                               !.results = << >>, !.d6Results = << >>,
                               !.visible = FALSE, !.rolled = TRUE,
                               !.physicsDice = [i \in 1..Len(@) |->
                                   [@[i] EXCEPT !.quaternion = q, !.settled = FALSE]] \o << >>]
              ELSE [app EXCEPT !.isRolling = TRUE, !.error = "Unknown dice type",
                               !.call = "roll",
                               !.visible = FALSE, !.rolled = TRUE,
                               !.results = << >>, !.d6Results = << >>]
    /\ UNCHANGED << bodies, accumulator, fixedTimestep, trace, last, fresh, budget, ref, diceApp >>

\* the update(dt) of PhysicsDie in which the die settles: the flight may leave
\* the die in any orientation
Land(i, q) ==
    /\ i \in 1..Len(app.physicsDice)
    /\ ~app.physicsDice[i].settled
    /\ app' = [app EXCEPT !.physicsDice[i] = [@ EXCEPT !.quaternion = q, !.settled = TRUE],
                          !.call = "update"]
    /\ UNCHANGED << bodies, accumulator, fixedTimestep, trace, last, fresh, budget, ref, diceApp >>

\* checkSettled(): results = this.physicsDice.map(d => d.getValue()); d6Results
\* is what getD6Value of js/d6-dice.js reads from the same orientations
CheckSettled ==
    /\ app.isRolling
    /\ \A i \in 1..Len(app.physicsDice) : app.physicsDice[i].settled
    /\ app' = [app EXCEPT !.isRolling = FALSE,
                          !.call = "checkSettled",
                          !.visible = TRUE,
                          !.results = [i \in 1..Len(app.physicsDice) |->
                                          getValue(app.physicsDice[i])] \o << >>,
                          !.d6Results = [i \in 1..Len(app.physicsDice) |->
                                            getD6Value(app.physicsDice[i])] \o << >>]
    /\ UNCHANGED << bodies, accumulator, fixedTimestep, trace, last, fresh, budget, ref, diceApp >>

NextApp ==
    \/ \E type \in ButtonTypes : TypeButton(type)
    \/ \E q \in RollOrientations : Roll(q)
    \/ \E q \in Orientations : Land(1, q)
    \/ CheckSettled

SpecApp == Init /\ [][NextApp]_vars

(***************************************************************************)
(* The DiceApp of js/app.js with a caller that makes dice from descriptors *)
(* of its own, as createDice makes them from the registry's                *)
(***************************************************************************)
\* dice on the table of that caller
MaxDice == 2

\* descriptors that break the rules of a shape: no vertices, no face normals,
\* and fewer face values than face normals
Malformed ==
    { [COIN_CONFIG EXCEPT !.type = "no vertices", !.vertices = << >>],
      [COIN_CONFIG EXCEPT !.type = "no normals", !.faceNormals = << >>],
      [COIN_CONFIG EXCEPT !.type = "one value", !.faceValues = << "Heads" >>] }

\* new PhysicsDie(position, config); physicsDie.settled = true;
\* this.physicsDice.push(physicsDie)
AddDie(config) ==
    /\ Len(app.physicsDice) < MaxDice
    /\ app' = [app EXCEPT !.physicsDice =
                              Append(@, [PhysicsDie(config) EXCEPT !.settled = TRUE]),
                          !.results = << >>, !.d6Results = << >>,
                          !.visible = FALSE, !.rolled = FALSE,
                          !.error = "none", !.call = "new PhysicsDie"]
    /\ UNCHANGED << bodies, accumulator, fixedTimestep, trace, last, fresh, budget, ref, diceApp >>

NextCreate ==
    \/ \E type \in ButtonTypes : TypeButton(type)
    \/ \E config \in DICE_REGISTRY \cup Malformed : AddDie(config)
    \/ \E q \in RollOrientations : Roll(q)
    \/ \E i \in 1..MaxDice, q \in RollOrientations : Land(i, q)
    \/ CheckSettled

SpecCreate == Init /\ [][NextCreate]_vars

(***************************************************************************)
(* The DiceApp that runs the engine: roll requests, the dice count buttons *)
(* and the animation frames, in any order; and beside it the DiceApp of    *)
(* js/app.js with its type buttons                                         *)
(***************************************************************************)
\* roll() calls in one behaviour
MaxRolls == 2

\* roll() without the return for a roll in progress
RollRequest_always(draw) ==
    /\ budget.resets < MaxRolls
    /\ bodies' = [i \in Dice |->
                    applyRollImpulse(resetBody(bodies[i], RollX(i), DropHeight, 0), draw)]
    /\ trace' = [i \in Dice |-> NoTrace]
    /\ last' = Call("roll", 0)
    /\ fresh' = {}
    /\ budget' = [budget EXCEPT !.resets = @ + 1, !.flight = 0]
    /\ diceApp' = [isRolling |-> TRUE, visible |-> FALSE, rolled |-> TRUE, call |-> "roll"]
    /\ UNCHANGED << accumulator, fixedTimestep >>

\* roll(), on a click or on the space bar: it returns at once while a roll is
\* in progress; else the result is hidden and every body is reset and launched
RollRequest(draw) ==
    /\ ~diceApp.isRolling
    /\ budget.resets < MaxRolls
    /\ bodies' = [i \in Dice |->
                    applyRollImpulse(resetBody(bodies[i], RollX(i), DropHeight, 0), draw)]
    /\ trace' = [i \in Dice |-> NoTrace]
    /\ last' = Call("roll", 0)
    /\ fresh' = {}
    /\ budget' = [budget EXCEPT !.resets = @ + 1, !.flight = 0]
    /\ diceApp' = [isRolling |-> TRUE, visible |-> FALSE, rolled |-> TRUE, call |-> "roll"]
    /\ UNCHANGED << accumulator, fixedTimestep >>

\* the click on a dice count button: this.diceCount = parseInt(btn.dataset.count);
\* this.createDice(), which clears the engine and adds bodies that start settled;
\* then the result is hidden. isRolling is left as it is.
CountButton ==
    /\ bodies' = [i \in Dice |->
                    [createD6Body(CreateX(i), D6_REST_HEIGHT, 0) EXCEPT !.isSettled = TRUE]]
    /\ trace' = [i \in Dice |-> [NoTrace EXCEPT !.settledBy = "createDice"]]
    /\ last' = Call("createDice", 0)
    /\ fresh' = {}
    /\ diceApp' = [diceApp EXCEPT !.visible = FALSE, !.rolled = FALSE, !.call = "createDice"]
    /\ UNCHANGED << accumulator, fixedTimestep, budget >>

\* checkSettled() on the bodies bs
checkSettled(a, bs) ==
    IF a.isRolling /\ allSettled(bs)
    THEN [a EXCEPT !.isRolling = FALSE, !.visible = TRUE, !.call = "checkSettled"]
    ELSE [a EXCEPT !.call = "animate"]

\* animate(): physicsEngine.update(deltaTime), then checkSettled()
Frame(deltaTime) ==
    /\ WithinBudget(deltaTime)
    /\ Update(deltaTime)
    /\ diceApp' = checkSettled(diceApp, bodies')

\* the engine and its DiceApp as they were made
EngineNew == last = NoCall /\ diceApp = NewDiceApp

NextDiceApp ==
    \/ \E draw \in RollDraws : app = NewApp /\ RollRequest(draw) /\ UNCHANGED << ref, app >>
    \/ app = NewApp /\ CountButton /\ UNCHANGED << ref, app >>
    \/ \E deltaTime \in Deltas : app = NewApp /\ Frame(deltaTime) /\ UNCHANGED << ref, app >>
    \/ \E type \in ButtonTypes : EngineNew /\ TypeButton(type)
    \/ \E q \in RollOrientations : EngineNew /\ Roll(q)
    \/ \E q \in Orientations : EngineNew /\ Land(1, q)
    \/ EngineNew /\ CheckSettled

SpecDiceApp == Init /\ [][NextDiceApp]_vars

(***************************************************************************)
(* Properties                                                              *)
(***************************************************************************)
\* C1: a body that is settled when update() is called has the same position,
\* the same orientation and the same face value when the call returns, and is
\* still settled, whatever the delta and the number of steps
C1_SettledBodyFrozen ==
    last.op = "update" =>
        \A i \in last.settledBefore :
            /\ bodies[i].isSettled
            /\ bodies[i].position = last.poses[i].position
            /\ bodies[i].quaternion = last.poses[i].quaternion
            /\ getD6Value(bodies[i]) = last.poses[i].value

\* an update ran steps over a body that an earlier step of the engine settled
C1_Witness ==
    /\ last.op = "update"
    /\ last.steps > 0
    /\ \E i \in last.settledBefore : trace[i].settledBy = "step"

\* C2: update(deltaTime) runs exactly
\* floor((accumulator before + min(deltaTime, MAX_ACCUMULATOR)) / FIXED_TIMESTEP)
\* steps and returns with 0 <= accumulator < FIXED_TIMESTEP
C2_StepsAndRemainder ==
    last.op = "update" =>
        /\ last.steps = (last.accBefore + Min(last.delta, MAX_ACCUMULATOR)) \div last.fixedDt
        /\ 0 <= accumulator
        /\ accumulator < last.fixedDt

\* a clamped update that started from a non-empty accumulator and left one
C2_Witness ==
    /\ last.op = "update"
    /\ last.delta > MAX_ACCUMULATOR
    /\ last.accBefore > 0
    /\ last.steps > 0
    /\ accumulator > 0

\* C3: when FIXED_TIMESTEP is the one of the previous call, one update() runs
\* at most MAX_ACCUMULATOR / FIXED_TIMESTEP steps
C3_StepsPerCallBounded ==
    (last.op = "update" /\ last.fixedPrev = last.fixedDt) =>
        last.steps <= MAX_ACCUMULATOR \div last.fixedDt

\* a stalled frame at the default timestep runs the 24 steps and no more
C3_Witness ==
    /\ last.op = "update"
    /\ last.fixedPrev = last.fixedDt
    /\ last.fixedDt = FIXED_TIMESTEP_240
    /\ last.delta > MAX_ACCUMULATOR
    /\ last.steps = 24

\* C4: whatever the deltas (each at most MAX_ACCUMULATOR) into which the
\* elapsed time was split, the engine ran as many steps as the engine that got
\* the same time tick by tick, and its bodies are in the same state
C4_SplitIndependent ==
    /\ ref.engineSteps = ref.steps
    /\ bodies = ref.bodies

\* both engines carried a launched die down to the ground and into its
\* rebound, the first one in frames of two different lengths
C4_Witness ==
    /\ last.op = "update"
    /\ last.delta = 27
    /\ ref.elapsed > 27 * (ref.elapsed \div 27)
    /\ ref.steps > 100
    /\ \E i \in Dice : ~bodies[i].isSettled /\ bodies[i].velocity.y > 0

\* C6: a body the engine settled was below both thresholds at every check
\* since its timer was last 0, for at least SETTLING_TIME in all; after a check
\* at or above a threshold the timer is 0 and the body is not settled; in
\* between the timer is the time of the checks below the thresholds
C6_SettledOnlyAfterQuietTime ==
    \A i \in Dice :
        /\ (bodies[i].isSettled /\ trace[i].settledBy = "step") =>
               (trace[i].lastCheck = "quiet" /\ trace[i].quietTicks >= SETTLING_TIME)
        /\ trace[i].lastCheck = "loud" =>
               (~bodies[i].isSettled /\ bodies[i].settleTimer = 0)
        /\ (~bodies[i].isSettled /\ trace[i].lastCheck = "quiet") =>
               (bodies[i].settleTimer = trace[i].quietTicks
                  /\ trace[i].quietTicks < SETTLING_TIME)

\* the engine settled a body
C6_Witness ==
    \E i \in Dice :
        /\ bodies[i].isSettled
        /\ trace[i].settledBy = "step"
        /\ trace[i].quietTicks >= SETTLING_TIME

C9_ImpactWakesSettledBody ==
    (last.op = "update" /\ last.steps > 0) =>
        \A p \in ContactPairs(bodies) :
            RelSpeed(bodies[p[1]], bodies[p[2]]) > 500 =>
                (~bodies[p[1]].isSettled /\ bodies[p[1]].velocity # ZeroVec)

RestingVertices(body) ==
    {i \in 1..Len(D6_VERTICES) :
        localToWorld(body, D6_VERTICES[i]).y - MinVertexY(body) <= 5}

\* C11: a body the engine settled rests on a face: the face normal most aligned
\* with world-up points exactly up and the body is not left tilted
C11_SettledFaceUp ==
    \A i \in Dice :
        (bodies[i].isSettled /\ trace[i].settledBy = "step") =>
            Cardinality(RestingVertices(bodies[i])) >= 4

\* the values a configuration declares
Declared(die) == {die.faceValues[i] : i \in 1..Len(die.faceValues)}

UpDot(n, q) == rotateByQuaternion(n, q).y

\* face k of the die points up more than any other, or less with readBottom
Extreme(die, k) ==
    \A j \in 1..Len(die.faceNormals) :
        IF die.readBottom
        THEN UpDot(die.faceNormals[k], die.quaternion)
                 <= UpDot(die.faceNormals[j], die.quaternion)
        ELSE UpDot(die.faceNormals[k], die.quaternion)
                 >= UpDot(die.faceNormals[j], die.quaternion)

C14_WallContainment ==
    \A i \in Dice :
        /\ trace[i].outside = 0
        /\ (last.op = "update" /\ last.steps > 0 /\ i \notin last.settledBefore)
               => Inside(bodies[i])

\* a die thrown at 30 m/s was put back by the walls in three steps or more and
\* is still flying, more than a metre from the centre of the table
C14_Witness ==
    /\ last.op = "update"
    /\ \E i \in Dice :
          /\ trace[i].walls > 2
          /\ ~bodies[i].isSettled
          /\ Abs(bodies[i].position.x) > 100000

\* C15: after the impulse of a penetrating vertex the vertical speed of the
\* contact point is at most RESTITUTION times its vertical speed before the
\* impulse (to within 10 mm/s of rounding), for every impulse since the reset
C15_NoEnergyInjection ==
    \A i \in Dice : Excess(trace[i].bounce) <= 10000

\* a and b are within 0.05 mm of each other in each coordinate
Near(a, b) == Abs(a.x - b.x) <= 5 /\ Abs(a.y - b.y) <= 5 /\ Abs(a.z - b.z) <= 5

\* C16: for every body and every corner p of the die, worldToLocal of
\* localToWorld(p) is p again, whatever the position and the orientation
C16_RoundTrip ==
    \A i \in Dice, k \in 1..Len(D6_VERTICES) :
        Near(worldToLocal(bodies[i], localToWorld(bodies[i], D6_VERTICES[k])),
             D6_VERTICES[k])

\* C17: after every integration step the quaternion of the body has norm 1 to
\* within 2e-4, whatever the spin and however many steps were taken; a quaternion
\* of norm at most 1e-4 is left as it is
C17_UnitQuaternion ==
    \A i \in Dice :
        /\ trace[i].offNorm = 0
        /\ (last.op = "update" /\ last.steps > 0 /\ i \notin last.settledBefore)
               => UnitOrUntouched(bodies[i].quaternion, bodies[i].quaternion)

\* a die that still spins at more than 5 rad/s after the steps of two updates or
\* more
C17_Witness ==
    /\ last.op = "update"
    /\ last.steps > 0
    /\ \E i \in Dice :
          /\ i \notin last.settledBefore
          /\ budget.flight > 2 * MAX_ACCUMULATOR
          /\ getAngularSpeed(bodies[i]) > 5000
          /\ Abs(QuaternionNorm(bodies[i].quaternion) - 10000) <= 2

\* a die whose quaternion of norm 0 went through the steps of an update
C17_WitnessZero ==
    /\ last.op = "update"
    /\ last.steps > 0
    /\ \E i \in Dice :
          /\ i \notin last.settledBefore
          /\ QuaternionNorm(bodies[i].quaternion) = 0

\* the body as resetBody(body, at.x, at.y, at.z) has to leave it
Reset(at) ==
    [position        |-> at,
     quaternion      |-> [w |-> 10000, x |-> 0, y |-> 0, z |-> 0],
     velocity        |-> ZeroVec,
     angularVelocity |-> ZeroVec,
     force           |-> ZeroVec,
     torque          |-> ZeroVec,
     settleTimer     |-> 0,
     isSettled       |-> FALSE]

\* C18: a call of resetBody(body, x, y, z) leaves the body at (x, y, z) with zero
\* velocity, angular velocity, force and torque, the identity quaternion,
\* settleTimer 0 and isSettled false, and leaves the other bodies and the
\* accumulator as they were
C18_ResetPostcondition ==
    [][\A i \in Dice :
          (last'.op = "resetBody" /\ last'.body = i) =>
              /\ bodies'[i] = Reset(last'.at)
              /\ \A j \in Dice \ {i} : bodies'[j] = bodies[j]
              /\ accumulator' = accumulator]_vars

\* resetBody was called on a body that was moving, turned and pushed, with time
\* left in the accumulator
C18_Witness ==
    /\ last.op = "resetBody"
    /\ last.was.velocity # ZeroVec
    /\ last.was.angularVelocity # ZeroVec
    /\ last.was.quaternion # [w |-> 10000, x |-> 0, y |-> 0, z |-> 0]
    /\ last.was.force # ZeroVec
    /\ last.was.torque # ZeroVec
    /\ last.was.position # last.at
    /\ accumulator > 0
    /\ bodies[last.body] = Reset(last.at)

\* resetBody was called on a body at rest whose settleTimer was running
C18_WitnessQuiet ==
    /\ last.op = "resetBody"
    /\ last.was.settleTimer > 0
    /\ bodies[last.body] = Reset(last.at)

\* resetBody was called on a settled body
C18_WitnessSettled ==
    /\ last.op = "resetBody"
    /\ last.was.isSettled
    /\ bodies[last.body] = Reset(last.at)

\* the die has vertices and face normals, and as many face values as normals
WellFormed(die) ==
    /\ Len(die.vertices) > 0
    /\ Len(die.faceNormals) > 0
    /\ Len(die.faceNormals) = Len(die.faceValues)

\* C19: no die made from a descriptor without vertices, without face normals or
\* with face normals and face values of different lengths is among the dice, and
\* none is there for a type name the registry does not have, which is refused
\* with an error
C19_MalformedRejected ==
    /\ \A i \in 1..Len(app.physicsDice) : WellFormed(app.physicsDice[i])
    /\ (app.call = "createDice" /\ app.diceType \notin DICE_TYPES) =>
           app.error = "Unknown dice type" /\ Len(app.physicsDice) = 0

Moved(i) ==
    \/ bodies[i].velocity # last.before[i].velocity
    \/ bodies[i].angularVelocity # last.before[i].angularVelocity

\* the speed, before the call, at which the two dice close in on each other
\* along their line of centres: relVelN = (vA - vB) . n with n from A to B is
\* minus the rate of change of their distance, so it is positive when the
\* dice approach and negative when they separate
Closing == RelVelN(last.before[1], last.before[2],
                   SphereNormalOf(last.before[1], last.before[2]))

\* C21: resolveSphereCollision changes the velocities of two bodies only when
\* they overlap and approach each other along the line of centres faster than
\* DICE_VELOCITY_THRESHOLD, and then they no longer approach; the velocities of
\* bodies that are separating are left as they were
C21_ImpulseOnlyWhenApproaching ==
    last.op = "resolveDiceCollisions" =>
        /\ (Moved(1) \/ Moved(2)) =>
               /\ SphereContact(last.before[1], last.before[2])
               /\ Closing > DICE_VELOCITY_THRESHOLD
               /\ RelVelN(bodies[1], bodies[2],
                          SphereNormalOf(last.before[1], last.before[2])) <= 0
        /\ (SphereContact(last.before[1], last.before[2]) /\ Closing <= 0) =>
               ~Moved(1) /\ ~Moved(2)

\* two overlapping dice that were separating got new velocities, with which
\* they approach
C21_WitnessSeparating ==
    /\ last.op = "resolveDiceCollisions"
    /\ Moved(1)
    /\ Moved(2)
    /\ Closing < 0 - DICE_VELOCITY_THRESHOLD
    /\ RelVelN(bodies[1], bodies[2], SphereNormalOf(last.before[1], last.before[2])) > 0

\* two overlapping dice that approached, one of them moving, were resolved and
\* kept their velocities
C21_WitnessApproaching ==
    /\ last.op = "resolveDiceCollisions"
    /\ SphereContact(last.before[1], last.before[2])
    /\ ~(last.before[1].isSettled /\ last.before[2].isSettled)
    /\ Closing > DICE_VELOCITY_THRESHOLD
    /\ ~Moved(1)
    /\ ~Moved(2)

\* the sum over a sequence of dice of mass times velocity: each RigidBody has
\* the mass D6_MASS, and the dice of js/app.js have the same mass each
Momentum(ds, mass) ==
    Vec(mass * (ds[1].velocity.x + ds[2].velocity.x),
        mass * (ds[1].velocity.y + ds[2].velocity.y),
        mass * (ds[1].velocity.z + ds[2].velocity.z))

\* C22: the total linear momentum of the two bodies is the same before and
\* after resolveSphereCollision, and the same before and after the vertex-based
\* resolveCollision
C22_MomentumConserved ==
    /\ last.op = "resolveDiceCollisions" =>
           Momentum(bodies, D6_MASS) = Momentum(last.before, D6_MASS)
    /\ app.call = "resolveCollision" =>
           Momentum(app.physicsDice, 1) = Momentum(app.before, 1)

\* resolveSphereCollision gave two dice with momentum an impulse each
C22_Witness ==
    /\ last.op = "resolveDiceCollisions"
    /\ bodies[1].velocity # last.before[1].velocity
    /\ bodies[2].velocity # last.before[2].velocity
    /\ Momentum(last.before, D6_MASS) # ZeroVec

\* resolveCollision gave two dice with momentum an impulse each
C22_WitnessVertex ==
    /\ app.call = "resolveCollision"
    /\ app.physicsDice[1].velocity # app.before[1].velocity
    /\ app.physicsDice[2].velocity # app.before[2].velocity
    /\ Momentum(app.before, 1) # ZeroVec

\* C23: the friction impulse at a ground contact vertex is at most
\* KINETIC_FRICTION times the normal impulse, and the horizontal velocity of the
\* contact point after it is applied there does not point against the one before
C23_FrictionNeverReverses ==
    \A i \in Dice :
        /\ Grip(trace[i].slip) <= 2000
        /\ Along(trace[i].slip) >= 0

\* C24: after wall resolution the velocity of a body does not point outward
\* through a wall it was clamped against, and a body that was already moving
\* inward keeps that velocity component and its angular velocity; this for the
\* walls of the engine and for those of PhysicsDie.update
C24_WallsTurnBack ==
    /\ \A i \in Dice : trace[i].wallFaults = 0
    /\ app.wallFaults = 0

\* C24 for resolveWallCollisions of the engine alone
C24_EngineWallsTurnBack == \A i \in Dice : trace[i].wallFaults = 0

\* the engine clamped a body that was not moving outward
C24_EngineWitness == \E i \in Dice : trace[i].wallsInward > 0

\* the engine clamped a body that was moving outward
C24_EngineWitnessOutward == \E i \in Dice : trace[i].walls > trace[i].wallsInward

\* C25: integrate(body, dt) advances the velocity by (gravity + drag + the
\* accumulated force) * inverseMass * dt and then moves the position by the new
\* velocity times dt
C25_SemiImplicitEuler == \A i \in Dice : trace[i].eulerFaults = 0

\* a body that carried a force was integrated while it moved
C25_Witness ==
    \E i \in Dice :
        /\ trace[i].forcedSteps > 0
        /\ bodies[i].velocity.x # 0
        /\ ~bodies[i].isSettled

\* C26: when integrate(body, dt) returns, the force and the torque of the body
\* are zero, so that what applyForce and applyTorque added is used by one
\* integration step: the steps that began with a force or torque on the body
\* are as many as the pushes it got, once it was stepped after the last one
C26_ForcesCleared ==
    \A i \in Dice :
        /\ trace[i].uncleared = 0
        /\ trace[i].forcedSteps <= trace[i].pushes
        /\ (last.op = "update" /\ last.steps > 0 /\ i \notin last.settledBefore) =>
               /\ ~Forced(bodies[i])
               /\ trace[i].forcedSteps = trace[i].pushes

\* a body was pushed and then stepped several times, of which one step began
\* with the force
C26_Witness ==
    \E i \in Dice :
        /\ trace[i].pushes > 0
        /\ trace[i].forcedSteps = trace[i].pushes
        /\ ~Forced(bodies[i])
        /\ last.op = "update"
        /\ last.steps > 1

\* C27: when the denominator of the ground impulse, inverseMass plus the angular
\* term, is zero, the impulse of that contact is left out: the velocities of
\* the body stay numbers and are what they were before the contact
C27_ZeroDenominatorSkipped ==
    (/\ last.op = "resolveGroundCollision"
     /\ ImpulseDenominator(last.options, last.was, last.at) = 0) =>
        /\ last.finite
        /\ bodies[1].velocity = last.was.velocity
        /\ bodies[1].angularVelocity = last.was.angularVelocity

\* a contact of a body of the d6 options, whose denominator is not zero, changed
\* the velocities of the body
C27_WitnessFinite ==
    /\ last.op = "resolveGroundCollision"
    /\ ImpulseDenominator(last.options, last.was, last.at) > 0
    /\ last.finite
    /\ bodies[1].velocity # last.was.velocity

\* what roll() makes of body i for some draw
Launched(i) ==
    \E draw \in RollDraws :
        bodies'[i] = applyRollImpulse(resetBody(bodies[i], RollX(i), DropHeight, 0), draw)

\* C28: while a roll is in progress no roll() takes effect: in a step from a
\* state in which isRolling is true no body is reset, launched or taken out
\* of rest, and isRolling becomes false only in checkSettled with every body
\* settled; in the DiceApp that runs the engine and in that of js/app.js
C28_RollIgnoredWhileRolling ==
    [][/\ diceApp.isRolling =>
            /\ diceApp'.call # "roll"
            /\ \A i \in Dice : ~Launched(i)
            /\ \A i \in Dice : bodies[i].isSettled => bodies'[i].isSettled
            /\ ~diceApp'.isRolling => (diceApp'.call = "checkSettled" /\ allSettled(bodies'))
       /\ app.isRolling =>
            /\ app'.call # "roll"
            /\ \A i \in 1..Len(app.physicsDice) :
                   (i <= Len(app'.physicsDice) /\ app.physicsDice[i].settled)
                      => app'.physicsDice[i].settled
            /\ ~app'.isRolling =>
                   /\ app'.call = "checkSettled"
                   /\ \A i \in 1..Len(app'.physicsDice) : app'.physicsDice[i].settled]_vars

\* a roll is in progress, its dice in flight, frames passing
C28_Witness ==
    /\ diceApp.isRolling
    /\ diceApp.call = "animate"
    /\ \E i \in Dice : ~bodies[i].isSettled

\* the second roll of a behaviour, issued after checkSettled ended the first
C28_WitnessSecondRoll ==
    /\ diceApp.isRolling
    /\ budget.resets = 2

\* a roll of the DiceApp of js/app.js is in progress, one die having landed
C28_WitnessApp ==
    /\ app.isRolling
    /\ app.call = "update"

\* C29: a result is displayed only for dice that were rolled: whenever the
\* result is visible, roll() was issued for the dice that createDice() made
\* last, and all of them are settled; in the DiceApp that runs the engine and
\* in that of js/app.js
C29_ResultOnlyForRolledDice ==
    /\ diceApp.visible => (diceApp.rolled /\ allSettled(bodies))
    /\ app.visible =>
          /\ app.rolled
          /\ \A i \in 1..Len(app.physicsDice) : app.physicsDice[i].settled

\* the result of a roll whose dice flew and settled is displayed
C29_WitnessRolled ==
    /\ diceApp.visible
    /\ diceApp.rolled
    /\ \A i \in Dice : trace[i].settledBy # "createDice"

\* the result is displayed for dice that the count button made during a roll
C29_WitnessUnrolled ==
    /\ diceApp.visible
    /\ ~diceApp.rolled
    /\ diceApp.call = "checkSettled"

\* the result is displayed for a die that the type button made during a roll
C29_WitnessUnrolledApp ==
    /\ app.visible
    /\ ~app.rolled

\* C30: a body whose isSettled flag is true has zero linear velocity and zero
\* angular velocity, also after resolveDiceCollisions acted on a settled body
\* and a moving one
C30_SettledAtRest ==
    \A i \in Dice :
        bodies[i].isSettled =>
            /\ bodies[i].velocity = ZeroVec
            /\ bodies[i].angularVelocity = ZeroVec

\* a body that a step of the engine settled after a flight is at rest
C30_WitnessStep ==
    \E i \in Dice :
        /\ bodies[i].isSettled
        /\ trace[i].settledBy = "step"
        /\ bodies[i].velocity = ZeroVec
        /\ bodies[i].angularVelocity = ZeroVec

\* a settled body was hit hard by a moving one: it is awake and moves
C30_WitnessWoken ==
    /\ last.op = "resolveDiceCollisions"
    /\ \E i \in last.settledBefore :
          /\ ~bodies[i].isSettled
          /\ bodies[i].velocity # ZeroVec

====
